---- MODULE Spec2Model ----
(***************************************************************************)
(* A model of readabilityrs: Readability::new, Readability::parse and the  *)
(* metadata resolver (get_json_ld, get_article_metadata).                   *)
(*                                                                         *)
(* Strings are sequences of characters; a character is a one-token string. *)
(* Option<T> is a sequence of length 0 (None) or 1 (Some).                 *)
(* Result<T, E> is a record with the field ok.                             *)
(***************************************************************************)
EXTENDS Integers, Sequences, FiniteSets, TLC

VARIABLES
    args,       \* per call site: the arguments (html, url, options) given to new
    pc,         \* per call site: the position inside new / parse
    created,    \* per call site: the Result<Readability> returned by new
    self,       \* per call site: the Readability struct (document, html, base_url, options, metadata)
    json_ld,    \* parse local: the structured-data record
    meta_values, \* get_article_metadata local: the key -> value table of the meta tags
    grab,       \* parse local: the Result<Option<String>> of grab_article
    rung,       \* grab_article: the rungs of the retry ladder tried so far
    stage,      \* parse locals: content_html, cleaned_wrapper_html, prepped_html, cleaned_html
    result,     \* per call site: what parse returned
    readerable, \* per call site: Option<bool>, what is_probably_readerable returned
    stderr,     \* per call site: the lines written by eprintln!
    REGEXPS     \* the process-wide lazily built pattern table

vars ==
    <<args, pc, created, self, json_ld, meta_values, grab, rung, stage, result, readerable,
      stderr, REGEXPS>>

-----------------------------------------------------------------------------
(* Bounds of the model.                                                     *)

\* the largest char_threshold an options value carries
MaxThreshold == 2
\* the largest element count of a document, and the largest element ceiling
MaxElems == 2
\* the largest number of meta elements of a document
MaxMetas == 2

-----------------------------------------------------------------------------
(* Option and Result.                                                       *)

None == << >>
Some(x) == << x >>
IsSome(o) == Len(o) = 1
IsNone(o) == Len(o) = 0
Unwrap(o) == o[1]
\* Option::or
OrOpt(a, b) == IF IsSome(a) THEN a ELSE b

Ok(v) == [ok |-> TRUE, v |-> v]
Err(e) == [ok |-> FALSE, e |-> e]

-----------------------------------------------------------------------------
(* Characters and strings.                                                  *)

\* the UTF-8 width of a character: "eacute" stands for U+00E9, "euro" for U+20AC,
\* "raquo" for U+00BB, "endash" for U+2013, "emdash" for U+2014
Utf8Len(c) ==
    CASE c \in {"eacute", "raquo"} -> 2
      [] c \in {"euro", "endash", "emdash"} -> 3
      [] OTHER -> 1

\* str::len: the length of a string in bytes, one for each character and one
\* more for each byte a character takes beyond its first
ByteLen(s) ==
    Len(s) + Cardinality({i \in DOMAIN s : Utf8Len(s[i]) >= 2})
           + Cardinality({i \in DOMAIN s : Utf8Len(s[i]) >= 3})

\* str::chars().count()
CharCount(s) == Len(s)

IsWhitespace(c) == c \in {" ", "\n", "\t"}

RECURSIVE TrimStart(_)
TrimStart(s) == IF s # << >> /\ IsWhitespace(Head(s)) THEN TrimStart(Tail(s)) ELSE s

RECURSIVE TrimEnd(_)
TrimEnd(s) ==
    IF s # << >> /\ IsWhitespace(s[Len(s)]) THEN TrimEnd(SubSeq(s, 1, Len(s) - 1)) ELSE s

\* str::trim
Trim(s) == TrimEnd(TrimStart(s))

UpperLetters ==
    <<"A", "B", "C", "D", "E", "F", "G", "H", "I", "J", "K", "L", "M", "N", "O", "P",
      "Q", "R", "S", "T", "U", "V", "W", "X", "Y", "Z">>
LowerLetters ==
    <<"a", "b", "c", "d", "e", "f", "g", "h", "i", "j", "k", "l", "m", "n", "o", "p",
      "q", "r", "s", "t", "u", "v", "w", "x", "y", "z">>
Range(f) == {f[i] : i \in DOMAIN f}
IsUpper(c) == c \in Range(UpperLetters)
IsLower(c) == c \in Range(LowerLetters) \cup {"eacute"}
IsAlphabetic(c) == IsUpper(c) \/ IsLower(c)
IsDigit(c) == c \in {"0", "1", "2", "3", "4", "5", "6", "7", "8", "9"}
IsAlphanumeric(c) == IsAlphabetic(c) \/ IsDigit(c)

LowerChar(c) ==
    IF IsUpper(c) THEN LowerLetters[CHOOSE i \in DOMAIN UpperLetters : UpperLetters[i] = c]
    ELSE c

\* str::to_lowercase
to_lowercase(s) == [i \in DOMAIN s |-> LowerChar(s[i])]

\* str::eq_ignore_ascii_case
eq_ignore_ascii_case(a, b) == to_lowercase(a) = to_lowercase(b)

\* does sub occur in s at position i (1-based)
OccursAt(s, sub, i) ==
    i >= 1 /\ i + Len(sub) - 1 <= Len(s) /\ SubSeq(s, i, i + Len(sub) - 1) = sub

\* str::contains
Contains(s, sub) == \E i \in 1..(Len(s) + 1) : OccursAt(s, sub, i)

\* str::find: the first position of sub in s, 0 when there is none
Find(s, sub) ==
    IF Contains(s, sub)
    THEN CHOOSE i \in 1..(Len(s) + 1) :
            OccursAt(s, sub, i) /\ \A j \in 1..(i - 1) : ~OccursAt(s, sub, j)
    ELSE 0

\* str::starts_with
StartsWith(s, sub) == OccursAt(s, sub, 1)

RECURSIVE SplitWs(_, _)
\* str::split_whitespace, with the word being read carried in cur
SplitWs(s, cur) ==
    IF s = << >> THEN (IF cur = << >> THEN << >> ELSE << cur >>)
    ELSE IF IsWhitespace(Head(s))
         THEN (IF cur = << >> THEN << >> ELSE << cur >>) \o SplitWs(Tail(s), << >>)
         ELSE SplitWs(Tail(s), Append(cur, Head(s)))

split_whitespace(s) == SplitWs(s, << >>)

\* s.split_whitespace().count()
word_count(s) == Len(split_whitespace(s))

RECURSIVE JoinWith(_, _)
\* [String]::join
JoinWith(parts, sep) ==
    IF parts = << >> THEN << >>
    ELSE IF Len(parts) = 1 THEN parts[1]
    ELSE parts[1] \o sep \o JoinWith(Tail(parts), sep)

\* s.split_whitespace().collect::<Vec<_>>().join(" ")
collapse(s) == JoinWith(split_whitespace(s), <<" ">>)

\* str::replace of every character of a set by one character
ReplaceChars(s, set, by) == [i \in DOMAIN s |-> IF s[i] \in set THEN by ELSE s[i]]

\* str::replace(char::is_whitespace, "")
RemoveWhitespace(s) == SelectSeq(s, LAMBDA c : ~IsWhitespace(c))

-----------------------------------------------------------------------------
(* Metadata (metadata.rs 13-21).                                            *)

MetadataDefault ==
    [title |-> None, byline |-> None, excerpt |-> None, site_name |-> None,
     published_time |-> None, lang |-> None]

-----------------------------------------------------------------------------
(* Structured data.  A script element of type application/ld+json is        *)
(* represented by what serde_json makes of its text: "bad" when from_str    *)
(* fails, "obj" for a JSON object, "arr" for a JSON array of objects.       *)
(* A JSON object carries the members get_json_ld reads:                     *)
(*   ctx   [kind: absent | str | obj | other, v: the string, or the @vocab] *)
(*   type  [kind: absent | str | other, v: the string]                      *)
(*   graph Option of a sequence of objects (@graph, when it is an array)    *)
(*   name, headline, description, datePublished  Option<String>             *)
(*   publisher  Option<String>: publisher.name when it is a string          *)
(*   author [kind: absent | obj | arr | other, name: Option<String>,        *)
(*           names: the Option<String> name of each array entry]            *)

NoCtx == [kind |-> "absent", v |-> ""]
StrCtx(s) == [kind |-> "str", v |-> s]
VocabCtx(s) == [kind |-> "obj", v |-> s]
NoType == [kind |-> "absent", v |-> ""]
StrType(s) == [kind |-> "str", v |-> s]
ListType == [kind |-> "other", v |-> ""]
NoAuthor == [kind |-> "absent", name |-> None, names |-> << >>]
AuthorObj(n) == [kind |-> "obj", name |-> n, names |-> << >>]
AuthorArr(ns) == [kind |-> "arr", name |-> None, names |-> ns]

EmptyObj ==
    [ctx |-> NoCtx, type |-> NoType, graph |-> None, name |-> None, headline |-> None,
     publisher |-> None, author |-> NoAuthor, description |-> None,
     datePublished |-> None]

BadScript == [kind |-> "bad", o |-> EmptyObj, items |-> << >>]
ObjScript(o) == [kind |-> "obj", o |-> o, items |-> << >>]
ArrScript(items) == [kind |-> "arr", o |-> EmptyObj, items |-> items]

\* serde_json::from_str::<Value>(content) (metadata.rs 42)
JsonParses(script) == script.kind # "bad"

\* REGEXPS.json_ld_article_types: the schema.org types under Article
ArticleTypes == {"Article", "NewsArticle", "BlogPosting"}

\* what a dereference of the Lazy table yields: the built table, whatever
\* the state of the cell before the dereference
Regexps(cell) == [json_ld_article_types |-> ArticleTypes]

\* the closure of both find calls: @type is a string matching the article types
IsArticleItem(item, table) ==
    item.type.kind = "str" /\ item.type.v \in table.json_ld_article_types

RECURSIVE FindArticle(_, _)
\* Iterator::find over the items of an array: Option of the first article item
FindArticle(items, table) ==
    IF items = << >> THEN None
    ELSE IF IsArticleItem(Head(items), table) THEN Some(Head(items))
    ELSE FindArticle(Tail(items), table)

\* Regex ^https?://schema\.org/?$
SchemaRegexMatch(s) ==
    s \in {"http://schema.org", "https://schema.org", "http://schema.org/",
           "https://schema.org/"}

\* the context test without the end anchor of the pattern
has_schema_context_unanchored(parsed) ==
    parsed.ctx.kind \in {"str", "obj"}
    /\ (SchemaRegexMatch(parsed.ctx.v) \/ parsed.ctx.v = "https://schema.org/docs")

has_schema_context(parsed) ==
    CASE parsed.ctx.kind = "str" -> SchemaRegexMatch(parsed.ctx.v)
      [] parsed.ctx.kind = "obj" -> SchemaRegexMatch(parsed.ctx.v)
      [] OTHER -> FALSE

\* metadata.rs 80-94: the @graph indirection
ResolveGraph(parsed, table) ==
    IF parsed.type.kind = "absent" /\ IsSome(parsed.graph)
        /\ IsSome(FindArticle(Unwrap(parsed.graph), table))
    THEN Unwrap(FindArticle(Unwrap(parsed.graph), table))
    ELSE parsed

\* the headline taken whenever there is one
JsonLdTitleHeadlineFirst(parsed) ==
    IF IsSome(parsed.headline) THEN Some(Trim(Unwrap(parsed.headline)))
    ELSE IF IsSome(parsed.name) /\ IsSome(parsed.publisher)
            /\ Trim(Unwrap(parsed.name)) = Trim(Unwrap(parsed.publisher))
    THEN None
    ELSE IF IsSome(parsed.name) THEN Some(Trim(Unwrap(parsed.name)))
    ELSE None

\* metadata.rs 109-133: name, headline and the publisher's name
JsonLdTitle(parsed) ==
    IF IsSome(parsed.name) /\ IsSome(parsed.publisher)
    THEN IF Trim(Unwrap(parsed.name)) = Trim(Unwrap(parsed.publisher))
         THEN IF IsSome(parsed.headline) THEN Some(Trim(Unwrap(parsed.headline)))
              ELSE None
         ELSE Some(Trim(Unwrap(parsed.name)))
    ELSE IF IsSome(parsed.name) THEN Some(Trim(Unwrap(parsed.name)))
    ELSE IF IsSome(parsed.headline) THEN Some(Trim(Unwrap(parsed.headline)))
    ELSE None

RECURSIVE JoinNames(_)
\* filter_map over the author array, trimmed, joined with ", "
JoinNames(names) ==
    IF names = << >> THEN << >>
    ELSE IF IsNone(Head(names)) THEN JoinNames(Tail(names))
    ELSE << Trim(Unwrap(Head(names))) >> \o JoinNames(Tail(names))

\* the author name as written, not trimmed
JsonLdBylineUntrimmed(parsed) ==
    IF parsed.author.kind = "obj" /\ IsSome(parsed.author.name)
    THEN parsed.author.name
    ELSE IF parsed.author.kind = "arr" /\ JoinNames(parsed.author.names) # << >>
    THEN Some(JoinWith(JoinNames(parsed.author.names), <<",", " ">>))
    ELSE None

\* metadata.rs 135-150
JsonLdByline(parsed) ==
    IF parsed.author.kind = "obj" /\ IsSome(parsed.author.name)
    THEN Some(Trim(Unwrap(parsed.author.name)))
    ELSE IF parsed.author.kind = "arr" /\ JoinNames(parsed.author.names) # << >>
    THEN Some(JoinWith(JoinNames(parsed.author.names), <<",", " ">>))
    ELSE None

TrimOpt(o) == IF IsSome(o) THEN Some(Trim(Unwrap(o))) ELSE None

\* metadata.rs 109-170: the fields one accepted block contributes; a field
\* already set by an earlier block is kept
JsonLdFill(md, parsed) ==
    [title |-> IF IsNone(md.title) THEN JsonLdTitle(parsed) ELSE md.title,
     byline |-> IF IsNone(md.byline) THEN JsonLdByline(parsed) ELSE md.byline,
     excerpt |-> IF IsNone(md.excerpt) THEN TrimOpt(parsed.description) ELSE md.excerpt,
     site_name |-> IF IsNone(md.site_name) THEN TrimOpt(parsed.publisher)
                   ELSE md.site_name,
     published_time |-> IF IsNone(md.published_time) THEN TrimOpt(parsed.datePublished)
                        ELSE md.published_time,
     lang |-> md.lang]

\* metadata.rs 32-171: the body of the loop over the script elements
JsonLdBlock(md, script, table) ==
    IF ~JsonParses(script) THEN md
    ELSE IF script.kind = "arr" /\ IsNone(FindArticle(script.items, table)) THEN md
    ELSE LET parsed == IF script.kind = "arr"
                       THEN Unwrap(FindArticle(script.items, table))
                       ELSE script.o
         IN  IF ~has_schema_context(parsed) THEN md
             ELSE LET article == ResolveGraph(parsed, table)
                  IN  IF ~IsArticleItem(article, table) THEN md
                      ELSE JsonLdFill(md, article)

RECURSIVE JsonLdLoop(_, _, _)
JsonLdLoop(md, scripts, table) ==
    IF scripts = << >> THEN md
    ELSE JsonLdLoop(JsonLdBlock(md, Head(scripts), table), Tail(scripts), table)

\* get_json_ld reading the pattern table without forcing the Lazy cell: the
\* first reader sees a table that is not built yet
get_json_ld_unforced(document, cell) ==
    JsonLdLoop(MetadataDefault, document.scripts,
               IF cell = "uninit" THEN [json_ld_article_types |-> {}] ELSE Regexps(cell))

\* get_json_ld(document), reading the pattern table through its cell
get_json_ld(document, cell) == JsonLdLoop(MetadataDefault, document.scripts, Regexps(cell))

-----------------------------------------------------------------------------
(* Meta tags.  The name of a meta element, and each whitespace-separated    *)
(* token of its property attribute, is represented by its parts:            *)
(*   ns     the namespace prefix as written in lower case, "" for none      *)
(*   sep    the separator between prefix and field: ":", "." or "-"         *)
(*   field  the field name as written in lower case                         *)
(*   upper  the attribute is written with upper-case letters                *)
(*   pad    the attribute has whitespace around it                          *)
(*   junk   other characters precede or follow the pattern                  *)
(* A meta element is [name, property, content, http_equiv], each an Option. *)

AttrTok(ns, sep, field) ==
    [ns |-> ns, sep |-> sep, field |-> field, upper |-> FALSE, pad |-> FALSE,
     junk |-> FALSE]

\* (article|dc|dcterm|og|twitter) of property_pattern
PropertyNs == {"article", "dc", "dcterm", "og", "twitter"}
\* (author|creator|description|published_time|title|site_name) of property_pattern
PropertyFields == {"author", "creator", "description", "published_time", "title", "site_name"}
\* the prefixes of name_pattern
NameNs == {"article", "dc", "dcterm", "og", "twitter", "parsely", "weibo:article", "weibo:webpage"}
\* (author|author_name|creator|pub-date|description|title|site_name) of name_pattern
NameFields ==
    {"author", "author_name", "creator", "pub-date", "description", "title", "site_name"}

\* property_pattern.find(prop): the pattern is not anchored, so it also
\* matches inside weibo:article:<field> and stops after author in author_name
PropertyMatches(tok) ==
    /\ tok.ns \in PropertyNs \cup {"weibo:article"}
    /\ tok.sep = ":"
    /\ tok.field \in PropertyFields \cup {"author_name"}

\* prop[mat.start()..mat.end()].to_lowercase().replace(char::is_whitespace, "")
PropertyKey(tok) ==
    (IF tok.ns = "weibo:article" THEN "article" ELSE tok.ns) \o ":"
        \o (IF tok.field = "author_name" THEN "author" ELSE tok.field)

\* name_pattern.is_match(name): anchored, whitespace allowed around
NameMatches(tok) ==
    /\ ~tok.junk
    /\ tok.field \in NameFields
    /\ \/ tok.ns = ""
       \/ tok.ns \in NameNs /\ tok.sep \in {"-", ".", ":"}

\* name.to_lowercase().replace(char::is_whitespace, "").replace('.', ":")
NameKey(tok) ==
    IF tok.ns = "" THEN tok.field
    ELSE tok.ns \o (IF tok.sep = "." THEN ":" ELSE tok.sep) \o tok.field

\* HashMap::new
EmptyMap == [k \in {} |-> << >>]

\* an insert that keeps the value of an existing key (entry().or_insert())
MapInsertKeepsFirst(values, key, value) == values @@ (key :> value)

\* HashMap::insert: the value of an existing key is replaced
MapInsert(values, key, value) == (key :> value) @@ values

\* HashMap::get(..).cloned()
MapGet(values, key) == IF key \in DOMAIN values THEN Some(values[key]) ELSE None

RECURSIVE InsertProperties(_, _, _)
\* metadata.rs 206-214: one insert per matching token of the property attribute
InsertProperties(values, props, content) ==
    IF props = << >> THEN values
    ELSE InsertProperties(
            IF PropertyMatches(Head(props))
            THEN MapInsert(values, PropertyKey(Head(props)), Trim(content))
            ELSE values,
            Tail(props), content)

\* metadata.rs 191-228: the body of the loop over the meta elements
MetaStep(values, meta) ==
    IF IsNone(meta.content) \/ Unwrap(meta.content) = << >> THEN values
    ELSE LET content == Unwrap(meta.content)
             matched_name == IsSome(meta.property)
                             /\ \E i \in DOMAIN Unwrap(meta.property) :
                                    PropertyMatches(Unwrap(meta.property)[i])
         IN  IF matched_name THEN InsertProperties(values, Unwrap(meta.property), content)
             ELSE IF IsSome(meta.name) /\ NameMatches(Unwrap(meta.name))
                  THEN MapInsert(values, NameKey(Unwrap(meta.name)), Trim(content))
                  ELSE values

RECURSIVE MetaLoop(_, _)
MetaLoop(values, metas) ==
    IF metas = << >> THEN values ELSE MetaLoop(MetaStep(values, Head(metas)), Tail(metas))

\* metadata.rs 181-228: the key -> value table of the document
MetaValues(document) == MetaLoop(EmptyMap, document.metas)

RECURSIVE FirstOf(_, _)
\* values.get(k1).or_else(|| values.get(k2))...cloned()
FirstOf(values, keys) ==
    IF keys = << >> THEN None
    ELSE IF IsSome(MapGet(values, Head(keys))) THEN MapGet(values, Head(keys))
    ELSE FirstOf(values, Tail(keys))

TitleKeys ==
    <<"dc:title", "dcterm:title", "og:title", "weibo:article:title",
      "weibo:webpage:title", "title", "twitter:title", "parsely-title">>
BylineKeys == <<"dc:creator", "dcterm:creator", "author", "parsely-author">>
ExcerptKeys ==
    <<"dc:description", "dcterm:description", "og:description",
      "weibo:article:description", "weibo:webpage:description", "description",
      "twitter:description">>
SiteNameKeys == <<"og:site_name">>
PublishedKeys == <<"article:published_time", "parsely-pub-date">>
ArticleAuthorKeys == <<"article:author", "article:author_name">>

-----------------------------------------------------------------------------
(* The <title> heuristic (metadata.rs 1266-1351).  A document carries       *)
(*   title     Option<String>: the text of the first title element          *)
(*   headings  the h1 and h2 elements in document order: [tag, text]        *)

\* | - en-dash em-dash \ / > and the right guillemet
SepChars == {"|", "-", "endash", "emdash", "\\", "/", ">", "raquo"}
\* the character class [\\//>»]
HierChars == {"\\", "/", ">", "raquo"}

\* a match of \s(sep)\s starts at position i
SepAt(s, i, chars) ==
    /\ i >= 1 /\ i + 2 <= Len(s)
    /\ IsWhitespace(s[i]) /\ s[i + 1] \in chars /\ IsWhitespace(s[i + 2])

RECURSIVE SepMatches(_, _)
\* sep_regex.find_iter: the starts of the non-overlapping matches from position i on
SepMatches(s, i) ==
    IF i + 2 > Len(s) THEN << >>
    ELSE IF SepAt(s, i, SepChars) THEN << i >> \o SepMatches(s, i + 3)
    ELSE SepMatches(s, i + 1)

RECURSIVE ReplaceSeps(_, _)
\* sep_regex.replace_all(s, " ")
ReplaceSeps(s, i) ==
    IF i > Len(s) THEN << >>
    ELSE IF SepAt(s, i, SepChars) THEN << " " >> \o ReplaceSeps(s, i + 3)
    ELSE << s[i] >> \o ReplaceSeps(s, i + 1)

\* first_sep_regex.replace(s, ""): drops everything up to and including the
\* first separator character
DropThroughFirstSep(s) ==
    IF \E i \in DOMAIN s : s[i] \in SepChars
    THEN LET k == CHOOSE i \in DOMAIN s :
                    s[i] \in SepChars /\ \A j \in 1..(i - 1) : s[j] \notin SepChars
         IN  SubSeq(s, k + 1, Len(s))
    ELSE s

\* str::rfind(c): the last position of c, 0 when there is none
RFindChar(s, c) ==
    IF \E i \in DOMAIN s : s[i] = c
    THEN CHOOSE i \in DOMAIN s : s[i] = c /\ \A j \in (i + 1)..Len(s) : s[j] # c
    ELSE 0

\* str::find(c)
FindChar(s, c) ==
    IF \E i \in DOMAIN s : s[i] = c
    THEN CHOOSE i \in DOMAIN s : s[i] = c /\ \A j \in 1..(i - 1) : s[j] # c
    ELSE 0

RECURSIVE NormalizeWs(_)
\* REGEXPS.normalize.replace_all(s, " "): a run of two or more whitespace
\* characters becomes one space
NormalizeWs(s) ==
    IF s = << >> THEN << >>
    ELSE IF Len(s) >= 2 /\ IsWhitespace(s[1]) /\ IsWhitespace(s[2])
         THEN LET rest == TrimStart(s) IN << " " >> \o NormalizeWs(rest)
         ELSE << Head(s) >> \o NormalizeWs(Tail(s))

\* the separator branch cutting at the first match instead of the last
TitleByFirstSeparator(orig_title) ==
    LET first_sep == SepMatches(orig_title, 1)[1]
        before == SubSeq(orig_title, 1, first_sep - 1)
    IN  IF word_count(before) < 3 THEN DropThroughFirstSep(orig_title) ELSE before

\* metadata.rs 1286-1299: the separator branch
TitleBySeparator(orig_title) ==
    LET last_sep == SepMatches(orig_title, 1)[Len(SepMatches(orig_title, 1))]
        before == SubSeq(orig_title, 1, last_sep - 1)
    IN  IF word_count(before) < 3 THEN DropThroughFirstSep(orig_title) ELSE before

\* metadata.rs 1300-1325: the colon branch
TitleByColon(document, orig_title) ==
    LET has_matching_heading ==
            \E i \in DOMAIN document.headings :
                Trim(document.headings[i].text) = Trim(orig_title)
        after_colon ==
            Trim(SubSeq(orig_title, RFindChar(orig_title, ":") + 1, Len(orig_title)))
        first == FindChar(orig_title, ":")
        after_first == Trim(SubSeq(orig_title, first + 1, Len(orig_title)))
        before_first == SubSeq(orig_title, 1, first - 1)
    IN  IF has_matching_heading THEN orig_title
        ELSE IF word_count(after_colon) < 3
             THEN (IF word_count(before_first) > 5 THEN orig_title ELSE after_first)
             ELSE after_colon

\* metadata.rs 1326-1333: the single h1 when the title is too long or too short
TitleByHeading(document, orig_title) ==
    LET h1s == SelectSeq(document.headings, LAMBDA h : h.tag = "h1")
    IN  IF (ByteLen(orig_title) > 150 \/ ByteLen(orig_title) < 15) /\ Len(h1s) = 1
        THEN Trim(h1s[1].text)
        ELSE orig_title

\* metadata.rs 1335-1350: normalisation and the word-count guard
TitleGuard(orig_title, candidate) ==
    LET cur_title == NormalizeWs(Trim(candidate))
        title_had_hierarchical_separators ==
            SepMatches(orig_title, 1) # << >>
            /\ \E i \in DOMAIN orig_title : SepAt(orig_title, i, HierChars)
        orig_word_count == word_count(ReplaceSeps(orig_title, 1))
    IN  IF word_count(cur_title) <= 4
           /\ (~title_had_hierarchical_separators
               \/ word_count(cur_title) # orig_word_count - 1)
        THEN orig_title
        ELSE cur_title

extract_title_from_document(document) ==
    IF IsNone(document.title) \/ Trim(Unwrap(document.title)) = << >> THEN None
    ELSE LET orig_title == Trim(Unwrap(document.title))
             candidate ==
                IF SepMatches(orig_title, 1) # << >> THEN TitleBySeparator(orig_title)
                ELSE IF Contains(orig_title, <<":", " ">>)
                     THEN TitleByColon(document, orig_title)
                     ELSE TitleByHeading(document, orig_title)
         IN  Some(TitleGuard(orig_title, candidate))

\* does extract_title_from_document read REGEXPS (metadata.rs 1335)
TitleReadsRegexps(document) ==
    IsSome(document.title) /\ Trim(Unwrap(document.title)) # << >>

-----------------------------------------------------------------------------
(* Language (metadata.rs 1222-1261).  A document carries                    *)
(*   root_first_child  [name, lang]: the first child of the root element    *)

\* meta[http-equiv='Content-Language'], meta[http-equiv='content-language']
IsContentLanguageMeta(meta) ==
    IsSome(meta.http_equiv)
    /\ Unwrap(meta.http_equiv) \in {"Content-Language", "content-language"}

\* meta[name='lang'], meta[name='language']
IsLangNameMeta(meta) ==
    /\ IsSome(meta.name)
    /\ Unwrap(meta.name).ns = "" /\ Unwrap(meta.name).field \in {"lang", "language"}
    /\ ~Unwrap(meta.name).upper /\ ~Unwrap(meta.name).pad /\ ~Unwrap(meta.name).junk

\* the trimmed content of the first of the selected metas whose content is not blank
FirstContent(selected) ==
    LET hits == SelectSeq(selected, LAMBDA m :
                    IsSome(m.content) /\ Trim(Unwrap(m.content)) # << >>)
    IN  IF hits = << >> THEN None ELSE Some(Trim(Unwrap(hits[1].content)))

extract_language_from_document(document) ==
    IF document.root_first_child.name = "html"
       /\ IsSome(document.root_first_child.lang)
       /\ Trim(Unwrap(document.root_first_child.lang)) # << >>
    THEN Some(Trim(Unwrap(document.root_first_child.lang)))
    ELSE OrOpt(FirstContent(SelectSeq(document.metas, IsContentLanguageMeta)),
               FirstContent(SelectSeq(document.metas, IsLangNameMeta)))

-----------------------------------------------------------------------------
(* String predicates of the utils module.                                   *)

UrlSchemes == {"http", "https"}

\* utils::is_url: a scheme, "://" and a host, with no whitespace anywhere
is_url(u) ==
    /\ Len(u) >= 3
    /\ u[1] \in UrlSchemes /\ u[2] = "://"
    /\ \A i \in DOMAIN u : ~IsWhitespace(u[i])

\* utils::unescape_html_entities: each character reference becomes its character
unescape_html_entities(s) ==
    [i \in DOMAIN s |->
        CASE s[i] = "&amp;" -> "&"
          [] s[i] = "&quot;" -> "\""
          [] s[i] = "&lt;" -> "<"
          [] s[i] = "&gt;" -> ">"
          [] OTHER -> s[i]]

\* the wire services and agencies utils::looks_like_org_credit knows
OrgCredits ==
    {<<"a", "f", "p">>, <<"r", "e", "u", "t", "e", "r", "s">>, <<"a", "p">>,
     <<"a", "s", "s", "o", "c", "i", "a", "t", "e", "d", " ", "p", "r", "e", "s", "s">>}

\* utils::looks_like_org_credit: the text is the name of a wire service
looks_like_org_credit(s) == to_lowercase(Trim(s)) \in OrgCredits

\* utils::looks_like_dateline: one upper-case place name, with or without a dash after it
looks_like_dateline(s) ==
    LET words == split_whitespace(Trim(s))
    IN  /\ Len(words) \in {1, 2}
        /\ Len(words[1]) >= 2
        /\ \A i \in DOMAIN words[1] : IsUpper(words[1][i])
        /\ Len(words) = 2 => words[2] \in {<<"-">>, <<"endash">>, <<"emdash">>}

\* utils::clean_byline_text: whitespace collapsed; nothing for a blank text or
\* an organisation credit
clean_byline_text(s) ==
    IF collapse(s) = << >> \/ looks_like_org_credit(s) THEN None ELSE Some(collapse(s))

\* utils::clean_byline_text_with_reason: clean_byline_text, with the reason
\* when nothing is left (CleanBylineOutcome)
clean_byline_text_with_reason(s) ==
    IF collapse(s) = << >> THEN [kind |-> "Dropped", text |-> << >>]
    ELSE IF looks_like_org_credit(s) THEN [kind |-> "DroppedOrgCredit", text |-> << >>]
    ELSE [kind |-> "Accepted", text |-> collapse(s)]

\* utils::looks_like_byline: the text opens with "by" and a space
looks_like_byline(text) == StartsWith(to_lowercase(Trim(text)), <<"b", "y", " ">>)

\* utils::looks_like_author_name: one to four words, each opening with a
\* capital letter
looks_like_author_name(text) ==
    LET words == split_whitespace(text)
    IN  /\ Len(words) \in 1..4
        /\ \A i \in DOMAIN words : IsUpper(words[i][1])

\* utils::looks_like_bracket_menu: a run of bracketed entries, "[a] [b]"
looks_like_bracket_menu(s) ==
    /\ s # << >> /\ s[1] = "[" /\ s[Len(s)] = "]"
    /\ Cardinality({i \in DOMAIN s : s[i] = "["}) >= 2

\* utils::is_byline_redundant_with_site_name: the site name contains the byline
is_byline_redundant_with_site_name(byline, site_name) ==
    /\ Trim(byline) # << >>
    /\ Contains(to_lowercase(site_name), to_lowercase(Trim(byline)))

-----------------------------------------------------------------------------
(* Byline fusion (metadata.rs 943-1068).                                    *)

MONTH_KEYWORDS ==
    {<<"j", "a", "n">>, <<"j", "a", "n", "u", "a", "r", "y">>, <<"f", "e", "b">>,
     <<"f", "e", "b", "r", "u", "a", "r", "y">>, <<"m", "a", "r">>,
     <<"m", "a", "r", "c", "h">>, <<"a", "p", "r">>, <<"a", "p", "r", "i", "l">>,
     <<"m", "a", "y">>, <<"j", "u", "n">>, <<"j", "u", "n", "e">>, <<"j", "u", "l">>,
     <<"j", "u", "l", "y">>, <<"a", "u", "g">>, <<"a", "u", "g", "u", "s", "t">>,
     <<"s", "e", "p">>, <<"s", "e", "p", "t">>,
     <<"s", "e", "p", "t", "e", "m", "b", "e", "r">>, <<"o", "c", "t">>,
     <<"o", "c", "t", "o", "b", "e", "r">>, <<"n", "o", "v">>,
     <<"n", "o", "v", "e", "m", "b", "e", "r">>, <<"d", "e", "c">>,
     <<"d", "e", "c", "e", "m", "b", "e", "r">>}

NOISE_TOKENS ==
    {<<"v", "i", "e", "w", "s">>, <<"v", "i", "e", "w">>, <<"v", "o", "t", "e", "s">>,
     <<"v", "o", "t", "e">>, <<"p", "o", "s", "t">>, <<"p", "o", "s", "t", "s">>,
     <<"y", "e", "s">>, <<"n", "o">>, <<"h", "o", "t">>, <<"s", "t", "a", "t", "s">>,
     <<"t", "r", "e", "n", "d", "i", "n", "g">>, <<"s", "h", "a", "r", "e">>,
     <<"s", "e", "c", "t", "i", "o", "n", "s">>}

RECURSIVE TrimNonAlnumStart(_)
TrimNonAlnumStart(s) ==
    IF s # << >> /\ ~IsAlphanumeric(Head(s)) THEN TrimNonAlnumStart(Tail(s)) ELSE s

RECURSIVE TrimNonAlnumEnd(_)
TrimNonAlnumEnd(s) ==
    IF s # << >> /\ ~IsAlphanumeric(s[Len(s)])
    THEN TrimNonAlnumEnd(SubSeq(s, 1, Len(s) - 1))
    ELSE s

\* metadata.rs 1056-1068
contains_caps_noise_token(text) ==
    \E i \in DOMAIN split_whitespace(text) :
        LET cleaned == to_lowercase(TrimNonAlnumEnd(TrimNonAlnumStart(split_whitespace(text)[i])))
        IN  cleaned # << >> /\ cleaned \in NOISE_TOKENS

\* metadata.rs 1037-1054
looks_like_caps_author(text) ==
    LET trimmed == Trim(text)
        letters == SelectSeq(trimmed, IsAlphabetic)
        uppercase == Len(SelectSeq(letters, IsUpper))
    IN  /\ trimmed # << >>
        /\ \E i \in DOMAIN trimmed : IsWhitespace(trimmed[i])
        /\ Len(letters) >= 3
        /\ ~contains_caps_noise_token(trimmed)
        /\ uppercase * 10 >= Len(letters) * 8

\* the characters should_prefer_dom_byline replaces by a space (metadata.rs 985-990)
RemainderPunctuation ==
    {"|", "-", "_", ",", ".", "endash", "emdash", "(", ")", "[", "]", "{", "}", "\"", "'"}

\* metadata.rs 1001-1013: the tokens that do not count as extra information
IsFillerToken(token) ==
    \/ \A i \in DOMAIN token : IsDigit(token[i])
    \/ token \in {<<"b", "y">>, <<"u", "p", "d", "a", "t", "e", "d">>, <<"a", "t">>, <<"a", "m">>, <<"p", "m">>}
    \/ token \in MONTH_KEYWORDS

\* the DOM byline preferred only when it holds the existing one and more
should_prefer_dom_byline_by_containment(existing, dom, confidence) ==
    LET existing_lower == to_lowercase(Trim(existing))
        dom_lower == to_lowercase(Trim(dom))
    IN  /\ ~eq_ignore_ascii_case(Trim(dom), Trim(existing))
        /\ Contains(collapse(dom_lower), collapse(existing_lower))

\* the capitals override whatever the confidence
should_prefer_dom_byline_any_confidence(existing, dom, confidence) ==
    LET existing_clean == Trim(existing)
        dom_clean == Trim(dom)
        existing_lower == to_lowercase(existing_clean)
        dom_lower == to_lowercase(dom_clean)
        idx == Find(dom_lower, existing_lower)
        remainder ==
            ReplaceChars(
                IF idx > 0
                THEN SubSeq(dom_lower, 1, idx - 1)
                        \o SubSeq(dom_lower, idx + Len(existing_lower), Len(dom_lower))
                ELSE dom_lower,
                RemainderPunctuation, " ")
        tokens == split_whitespace(remainder)
    IN  IF eq_ignore_ascii_case(dom_clean, existing_clean) THEN FALSE
        ELSE IF looks_like_org_credit(existing_clean) /\ ~looks_like_org_credit(dom_clean)
        THEN TRUE
        ELSE IF looks_like_dateline(existing_clean) /\ ~looks_like_dateline(dom_clean)
        THEN TRUE
        ELSE IF confidence \in {"High", "Medium", "Low"} /\ looks_like_caps_author(dom_clean)
                /\ ~looks_like_caps_author(existing_clean)
        THEN TRUE
        ELSE IF ~Contains(collapse(dom_lower), collapse(existing_lower)) THEN FALSE
        ELSE \E i \in DOMAIN tokens : ~IsFillerToken(tokens[i])

\* metadata.rs 943-1020
should_prefer_dom_byline(existing, dom, confidence) ==
    LET existing_clean == Trim(existing)
        dom_clean == Trim(dom)
        existing_lower == to_lowercase(existing_clean)
        dom_lower == to_lowercase(dom_clean)
        idx == Find(dom_lower, existing_lower)
        remainder ==
            ReplaceChars(
                IF idx > 0
                THEN SubSeq(dom_lower, 1, idx - 1)
                        \o SubSeq(dom_lower, idx + Len(existing_lower), Len(dom_lower))
                ELSE dom_lower,
                RemainderPunctuation, " ")
        tokens == split_whitespace(remainder)
    IN  IF eq_ignore_ascii_case(dom_clean, existing_clean) THEN FALSE
        ELSE IF looks_like_org_credit(existing_clean) /\ ~looks_like_org_credit(dom_clean)
        THEN TRUE
        ELSE IF looks_like_dateline(existing_clean) /\ ~looks_like_dateline(dom_clean)
        THEN TRUE
        ELSE IF confidence = "High" /\ looks_like_caps_author(dom_clean)
                /\ ~looks_like_caps_author(existing_clean)
        THEN TRUE
        ELSE IF ~Contains(collapse(dom_lower), collapse(existing_lower)) THEN FALSE
        ELSE \E i \in DOMAIN tokens : ~IsFillerToken(tokens[i])

\* metadata.rs 1022-1035
should_prefer_caps_standfirst(existing, candidate) ==
    LET existing_clean == Trim(existing)
        candidate_clean == Trim(candidate)
    IN  IF eq_ignore_ascii_case(candidate_clean, existing_clean) THEN FALSE
        ELSE IF looks_like_caps_author(existing_clean) THEN FALSE
        ELSE looks_like_caps_author(candidate_clean)

-----------------------------------------------------------------------------
(* The DOM byline cascade (metadata.rs 369-915, 1070-1214).  A document     *)
(* carries body_elems, its elements in document order, each a record      *)
(*   tag       the element name                                             *)
(*   class, id, rel, itemprop, section                                      *)
(*             the attribute values ("" when the attribute is absent)       *)
(*   href      Option<String>: the href attribute, as a sequence of tokens  *)
(*   text      the text node that opens the element                         *)
(*   parent    the index of the parent element, 0 under the body            *)
(* scraper's select visits the descendants of an element, not the element.  *)

Elem(tag, class, text, parent) ==
    [tag |-> tag, class |-> class, id |-> << >>, rel |-> << >>, itemprop |-> << >>,
     section |-> << >>, href |-> None, text |-> text, parent |-> parent]

\* metadata.rs 369-387
DomBylineCandidate(text, confidence) == [text |-> text, confidence |-> confidence]

Indices(elems) == [i \in DOMAIN elems |-> i]

\* k is a proper ancestor of j
RECURSIVE IsAncestor(_, _, _)
IsAncestor(elems, k, j) ==
    /\ elems[j].parent # 0
    /\ \/ elems[j].parent = k
       \/ IsAncestor(elems, k, elems[j].parent)

\* element.select(..): the descendants of k, in document order
Descendants(elems, k) == SelectSeq(Indices(elems), LAMBDA j : IsAncestor(elems, k, j))

\* a whitespace-separated attribute value holds the word (the ~= selector)
HasWord(value, word) == \E i \in DOMAIN split_whitespace(value) : split_whitespace(value)[i] = word

\* .. holds the word, whatever its case
HasWordIgnoreCase(value, word) ==
    \E i \in DOMAIN split_whitespace(value) :
        eq_ignore_ascii_case(split_whitespace(value)[i], word)

\* metadata.rs 1119-1141
RECURSIVE AncestorWalk(_, _, _, _, _)
AncestorWalk(elems, k, keywords, max_depth, depth) ==
    LET class == to_lowercase(elems[k].class)
        id == to_lowercase(elems[k].id)
    IN  IF \E keyword \in keywords : Contains(class, keyword) \/ Contains(id, keyword)
        THEN TRUE
        ELSE IF depth >= max_depth \/ elems[k].parent = 0 THEN FALSE
        ELSE AncestorWalk(elems, elems[k].parent, keywords, max_depth, depth + 1)

ancestor_has_keyword(elems, k, keywords, max_depth) ==
    AncestorWalk(elems, k, keywords, max_depth, 0)

\* metadata.rs 1144-1179
IGNORABLE_KEYWORDS ==
    {<<"p", "o", "s", "t", "-", "f", "o", "o", "t", "e", "r">>,
     <<"e", "n", "t", "r", "y", "-", "f", "o", "o", "t", "e", "r">>,
     <<"a", "r", "t", "i", "c", "l", "e", "-", "f", "o", "o", "t", "e", "r">>,
     <<"s", "e", "c", "t", "i", "o", "n", "-", "f", "o", "o", "t", "e", "r">>,
     <<"p", "o", "s", "t", "m", "e", "t", "a">>,
     <<"m", "e", "t", "a", "-", "f", "o", "o", "t", "e", "r">>, <<"f", "o", "o", "t", "e", "r">>,
     <<"p", "r", "o", "f", "i", "l", "e">>, <<"s", "i", "d", "e", "b", "a", "r">>,
     <<"w", "i", "d", "g", "e", "t">>,
     <<"c", "o", "m", "m", "e", "n", "t">>, <<"b", "i", "o">>,
     <<"r", "e", "l", "a", "t", "e", "d", "-", "p", "o", "s", "t">>,
     <<"u", "s", "e", "r", "-", "b", "y", "l", "i", "n", "e", "s">>,
     <<"b", "y", "l", "i", "n", "e", "_", "_", "b", "o", "d", "y">>,
     <<"b", "y", "l", "i", "n", "e", "_", "_", "t", "i", "t", "l", "e">>,
     <<"p", "o", "s", "t", "-", "i", "n", "f", "o">>,
     <<"e", "n", "t", "r", "y", "-", "b", "y", "l", "i", "n", "e">>,
     <<"e", "n", "t", "r", "y", "-", "a", "u", "t", "h", "o", "r">>,
     <<"a", "s", "s", "e", "t", "a", "u", "t", "h", "o", "r">>,
     <<"c", "o", "n", "t", "e", "n", "t", "p", "r", "o", "m", "o">>, <<"p", "r", "o", "m", "o">>,
     <<"a", "s", "s", "e", "t", "-", "a", "u", "t", "h", "o", "r">>,
     <<"v", "i", "d", "e", "o", "p", "r", "o", "m", "o">>,
     <<"p", "o", "p", "o", "n", "s", "c", "r", "o", "l", "l">>,
     <<"m", "o", "s", "t", "-", "p", "o", "p", "u", "l", "a", "r">>,
     <<"p", "o", "p", "u", "l", "a", "r", "-", "s", "t", "o", "r", "i", "e", "s">>,
     <<"v", "i", "d", "e", "o", "s", "l", "i", "d", "e">>,
     <<"v", "i", "d", "e", "o", "-", "c", "o", "n", "t", "a", "i", "n", "e", "r">>,
     <<"c", "a", "r", "d", "-", "b", "o", "x">>,
     <<"a", "r", "t", "i", "c", "l", "e", "-", "v", "i", "e", "w", "-", "b", "o", "x">>,
     <<"c", "a", "r", "d", "b", "o", "x">>,
     <<"a", "r", "t", "i", "c", "l", "e", "-", "c", "o", "n", "t", "e", "n", "t">>,
     <<"s", "t", "o", "r", "y", "-", "i", "n", "f", "o">>}

\* the walk stopping one ancestor earlier
is_ignorable_byline_context_nearer(elems, k) ==
    ancestor_has_keyword(elems, k, IGNORABLE_KEYWORDS, 15)

\* metadata.rs 1143-1181
is_ignorable_byline_context(elems, k) == ancestor_has_keyword(elems, k, IGNORABLE_KEYWORDS, 16)

\* metadata.rs 1184-1212
NOISE_KEYWORDS ==
    {<<"v", "i", "d", "e", "o", "p", "r", "o", "m", "o">>,
     <<"v", "i", "d", "e", "o", "s", "l", "i", "d", "e">>,
     <<"v", "i", "d", "e", "o", "-", "s", "l", "i", "d", "e">>,
     <<"v", "i", "d", "e", "o", "-", "m", "o", "d", "u", "l", "e">>,
     <<"p", "o", "p", "o", "n", "s", "c", "r", "o", "l", "l">>,
     <<"c", "o", "n", "t", "e", "n", "t", "p", "r", "o", "m", "o">>, <<"p", "r", "o", "m", "o">>,
     <<"p", "o", "p", "u", "l", "a", "r">>,
     <<"m", "o", "s", "t", "-", "p", "o", "p", "u", "l", "a", "r">>,
     <<"p", "o", "p", "u", "l", "a", "r", "-", "s", "t", "o", "r", "i", "e", "s">>,
     <<"m", "o", "r", "e", "-", "s", "t", "o", "r", "i", "e", "s">>,
     <<"r", "e", "l", "a", "t", "e", "d">>, <<"r", "e", "c", "i", "r", "c">>,
     <<"r", "e", "c", "o", "m", "m", "e", "n", "d">>,
     <<"n", "e", "w", "s", "l", "e", "t", "t", "e", "r">>,
     <<"s", "i", "g", "n", "u", "p">>, <<"a", "s", "s", "e", "t">>,
     <<"s", "o", "c", "i", "a", "l">>, <<"s", "h", "a", "r", "e">>,
     <<"g", "a", "l", "l", "e", "r", "y">>, <<"s", "l", "i", "d", "e", "s", "h", "o", "w">>,
     <<"i", "n", "d", "e", "p", "t", "h">>,
     <<"i", "n", "d", "e", "p", "t", "h", "-", "m", "o", "d", "u", "l", "e">>,
     <<"h", "o", "t", "_", "s", "t", "a", "t", "s">>,
     <<"h", "o", "t", "-", "s", "t", "a", "t", "s">>,
     <<"t", "r", "e", "n", "d", "i", "n", "g", "-", "b", "a", "d", "g", "e">>,
     <<"v", "i", "e", "w", "s">>}

\* metadata.rs 1183-1214
is_noise_byline_context(elems, k) == ancestor_has_keyword(elems, k, NOISE_KEYWORDS, 16)

\* metadata.rs 1095-1107
element_has_byline_keyword(elems, k) ==
    LET class == to_lowercase(elems[k].class)
        id == to_lowercase(elems[k].id)
    IN  \E keyword \in {<<"b", "y", "l", "i", "n", "e">>, <<"a", "u", "t", "h", "o", "r">>,
    <<"w", "r", "i", "t", "e", "r">>, <<"c", "r", "e", "d", "i", "t">>} :
            Contains(class, keyword) \/ Contains(id, keyword)

\* metadata.rs 1109-1113
element_has_explicit_byline_marker(elems, k) ==
    \/ Contains(to_lowercase(elems[k].class), <<"b", "y", "l", "i", "n", "e">>)
    \/ Contains(to_lowercase(elems[k].id), <<"b", "y", "l", "i", "n", "e">>)

\* metadata.rs 743-758: the first newline goes when only blanks precede it
RECURSIVE LeadingBlanks(_)
LeadingBlanks(text) ==
    IF text # << >> /\ IsWhitespace(Head(text)) /\ Head(text) # "\n"
    THEN 1 + LeadingBlanks(Tail(text))
    ELSE 0

strip_intermediate_newline(text) ==
    LET i == LeadingBlanks(text)
    IN  IF i < Len(text) /\ text[i + 1] = "\n"
        THEN SubSeq(text, 1, i) \o SubSeq(text, i + 2, Len(text))
        ELSE text

EndsWithNewline(out) == out # << >> /\ out[Len(out)] = "\n"

\* metadata.rs 713-724: one text node appended to the buffer
AppendText(out, text) ==
    LET text_slice == IF EndsWithNewline(out) /\ text # << >> /\ Head(text) = "\n"
                      THEN Tail(text)
                      ELSE text
    IN  IF EndsWithNewline(out)
        THEN out \o strip_intermediate_newline(text_slice)
        ELSE out \o text_slice

\* metadata.rs 725-732: the element nodes below the element, a br as a newline
RECURSIVE AppendChildren(_, _, _)
AppendChildren(elems, nodes, out) ==
    IF nodes = << >> THEN out
    ELSE LET child == elems[Head(nodes)]
             opened == IF child.tag = "br" THEN out \o <<"\n">> ELSE out
         IN  AppendChildren(elems, Tail(nodes), AppendText(opened, child.text))

\* metadata.rs 709-741
build_byline_text(elems, k) ==
    AppendChildren(elems, Descendants(elems, k), AppendText(<< >>, elems[k].text))

\* ElementRef::text().collect(): the text nodes of the element, concatenated
RECURSIVE ConcatNodeTexts(_, _)
ConcatNodeTexts(elems, nodes) ==
    IF nodes = << >> THEN << >>
    ELSE elems[Head(nodes)].text \o ConcatNodeTexts(elems, Tail(nodes))

ElementText(elems, k) == elems[k].text \o ConcatNodeTexts(elems, Descendants(elems, k))

\* metadata.rs 776-783
push_unique(names, candidate) ==
    IF \E i \in DOMAIN names : eq_ignore_ascii_case(names[i], candidate)
    THEN names
    ELSE Append(names, candidate)

\* metadata.rs 787-792
RECURSIVE CollectItempropNames(_, _, _)
CollectItempropNames(elems, nodes, names) ==
    IF nodes = << >> THEN names
    ELSE LET text == Trim(ElementText(elems, Head(nodes)))
         IN  CollectItempropNames(elems, Tail(nodes),
                IF HasWord(elems[Head(nodes)].itemprop, <<"n", "a", "m", "e">>) /\ text # << >>
                THEN push_unique(names, text)
                ELSE names)

\* metadata.rs 800-809: a mail or social-network link
IsContactHref(href) ==
    /\ IsSome(href)
    /\ LET href_lower == to_lowercase(Unwrap(href))
       IN  \/ StartsWith(href_lower, <<"mailto:">>)
           \/ \E i \in DOMAIN href_lower :
                 href_lower[i] \in {"twitter.com", "facebook.com", "linkedin.com"}

\* metadata.rs 794-812
RECURSIVE CollectAnchorNames(_, _, _)
CollectAnchorNames(elems, nodes, names) ==
    IF nodes = << >> THEN names
    ELSE LET anchor == elems[Head(nodes)]
             text == Trim(ElementText(elems, Head(nodes)))
         IN  CollectAnchorNames(elems, Tail(nodes),
                IF /\ anchor.tag = "a"
                   /\ text # << >>
                   /\ ~Contains(text, <<"@">>)
                   /\ looks_like_author_name(text)
                   /\ ~IsContactHref(anchor.href)
                THEN push_unique(names, text)
                ELSE names)

\* metadata.rs 772-815: None when no name was found
collect_child_author_names(elems, k) ==
    LET nodes == Descendants(elems, k)
        names == CollectAnchorNames(elems, nodes, CollectItempropNames(elems, nodes, << >>))
    IN  IF names = << >> THEN None ELSE Some(names)

\* metadata.rs 817-828
element_has_semantic_name(elems, k) ==
    \/ HasWordIgnoreCase(elems[k].itemprop, <<"n", "a", "m", "e">>)
    \/ \E j \in DOMAIN elems : IsAncestor(elems, k, j) /\ HasWord(elems[j].itemprop, <<"n", "a", "m", "e">>)

\* metadata.rs 891-915
JOB_KEYWORDS ==
    {<<"r", "e", "p", "o", "r", "t", "e", "r">>, <<"e", "d", "i", "t", "o", "r">>,
     <<"w", "r", "i", "t", "e", "r">>, <<"s", "t", "a", "f", "f">>,
     <<"s", "e", "n", "i", "o", "r">>,
     <<"t", "e", "c", "h", "n", "o", "l", "o", "g", "i", "s", "t">>,
     <<"c", "o", "r", "r", "e", "s", "p", "o", "n", "d", "e", "n", "t">>,
     <<"c", "o", "l", "u", "m", "n", "i", "s", "t">>, <<"a", "n", "a", "l", "y", "s", "t">>,
     <<"p", "r", "o", "d", "u", "c", "e", "r">>, <<"a", "n", "c", "h", "o", "r">>,
     <<"b", "u", "r", "e", "a", "u">>,
     <<"d", "e", "s", "k">>, <<"s", "p", "o", "k", "e", "s", "m", "a", "n">>,
     <<"s", "p", "o", "k", "e", "s", "w", "o", "m", "a", "n">>,
     <<"s", "p", "o", "k", "e", "s", "p", "e", "r", "s", "o", "n">>,
     <<"c", "o", "n", "t", "r", "i", "b", "u", "t", "o", "r">>,
     <<"t", "e", "a", "m">>, <<"a", "u", "t", "h", "o", "r">>}

looks_like_job_descriptor(token) == token \in JOB_KEYWORDS

\* str::replace(name, " "): every occurrence, left to right
RECURSIVE ReplaceAll(_, _, _)
ReplaceAll(s, sub, by) ==
    IF sub = << >> \/ Find(s, sub) = 0 THEN s
    ELSE SubSeq(s, 1, Find(s, sub) - 1) \o by
            \o ReplaceAll(SubSeq(s, Find(s, sub) + Len(sub), Len(s)), sub, by)

\* metadata.rs 863-866: the names taken out of the raw text
RECURSIVE RemoveNames(_, _)
RemoveNames(normalized, names) ==
    IF names = << >> THEN normalized
    ELSE RemoveNames(ReplaceAll(normalized, to_lowercase(Head(names)), <<" ">>), Tail(names))

\* metadata.rs 830-889
should_prefer_child_names(elems, k, raw_text, names) ==
    LET class_id == IF elems[k].class # << >> /\ elems[k].id # << >>
                    THEN elems[k].class \o <<" ">> \o elems[k].id
                    ELSE elems[k].class \o elems[k].id
        class_id_lower == to_lowercase(class_id)
        normalized ==
            ReplaceChars(
                ReplaceChars(RemoveNames(to_lowercase(raw_text), names),
                             {"nbsp", "zwsp", "\r", "\n"}, " "),
                {".", ",", "endash", "emdash", "-", "|", ":", ";", "/", "(", ")"}, " ")
        tokens == split_whitespace(normalized)
    IN  IF names = << >> THEN FALSE
        ELSE IF ancestor_has_keyword(elems, k, {<<"a", "u", "t", "h", "o", "r", "i", "n", "f", "o">>,
        <<"a", "u", "t", "h", "o", "r", "-", "i", "n", "f", "o">>}, 4) THEN TRUE
        ELSE IF Contains(class_id_lower, <<"a", "u", "t", "h", "o", "r", "i", "n", "f", "o">>)
                \/ Contains(class_id_lower, <<"a", "u", "t", "h", "o", "r", "-", "i", "n", "f", "o">>)
        THEN TRUE
        ELSE IF Contains(to_lowercase(elems[k].section), <<"a", "u", "t", "h", "o", "r">>) THEN TRUE
        ELSE IF tokens = << >> THEN TRUE
        ELSE IF \E i \in DOMAIN tokens : looks_like_job_descriptor(tokens[i]) THEN TRUE
        ELSE /\ element_has_semantic_name(elems, k)
             /\ \A i \in DOMAIN tokens : tokens[i] = <<"b", "y">>

\* metadata.rs 760-768
collect_byline_candidate_text(elems, k) ==
    LET raw_text == build_byline_text(elems, k)
        names == collect_child_author_names(elems, k)
    IN  IF IsSome(names) /\ should_prefer_child_names(elems, k, raw_text, Unwrap(names))
        THEN JoinWith(Unwrap(names), <<",", " ">>)
        ELSE raw_text

\* format!("{} {}", class, id)
MatchString(elems, k) == elems[k].class \o <<" ">> \o elems[k].id

\* scoring::is_valid_byline: an author relationship or a byline word in the
\* match string, on an element whose text is a plausible byline length
BYLINE_WORDS == {<<"b", "y", "l", "i", "n", "e">>, <<"a", "u", "t", "h", "o", "r">>,
<<"d", "a", "t", "e", "l", "i", "n", "e">>, <<"w", "r", "i", "t", "t", "e", "n", "b", "y">>,
<<"p", "-", "a", "u", "t", "h", "o", "r">>}

is_valid_byline(elems, k, match_string) ==
    LET length == Len(Trim(ElementText(elems, k)))
    IN  /\ \/ HasWord(elems[k].rel, <<"a", "u", "t", "h", "o", "r">>)
           \/ Contains(elems[k].itemprop, <<"a", "u", "t", "h", "o", "r">>)
           \/ \E word \in BYLINE_WORDS : Contains(to_lowercase(match_string), word)
        /\ length > 0 /\ length < 100

\* metadata.rs 1070-1093
parent_byline_text(elems, k) ==
    LET parent == elems[k].parent
        outcome == clean_byline_text_with_reason(Trim(collect_byline_candidate_text(elems, parent)))
    IN  IF parent = 0 THEN None
        ELSE IF is_ignorable_byline_context(elems, parent) THEN None
        ELSE IF is_noise_byline_context(elems, parent) THEN None
        ELSE IF ~element_has_byline_keyword(elems, parent) THEN None
        ELSE IF outcome.kind = "Accepted" THEN Some(outcome.text)
        ELSE None

\* metadata.rs 1115-1117
is_priority_dom_candidate(candidate, raw_caps) ==
    raw_caps \/ looks_like_byline(candidate.text)

\* metadata.rs 677-707: the elements the standfirst selectors visit, selector
\* by selector
StandfirstNodes(elems) ==
    SelectSeq(Indices(elems), LAMBDA k :
        elems[k].tag = "em" /\ HasWord(elems[k].class, <<"b", "y", "l", "i", "n", "e">>))
    \o SelectSeq(Indices(elems), LAMBDA k : Contains(elems[k].class, <<"b", "y", "l", "i", "n", "e">>))

RECURSIVE StandfirstLoop(_, _)
StandfirstLoop(elems, nodes) ==
    IF nodes = << >> THEN None
    ELSE LET k == Head(nodes)
             Judge(text, outcome) ==
                 IF /\ ancestor_has_keyword(elems, k, {<<"s", "t", "a", "n", "d", "f", "i", "r", "s", "t">>}, 5)
                    /\ ~(is_ignorable_byline_context(elems, k) \/ is_noise_byline_context(elems, k))
                    /\ text # << >> /\ ByteLen(text) <= 80
                    /\ looks_like_caps_author(text)
                    /\ outcome.kind = "Accepted"
                 THEN Some(outcome.text)
                 ELSE StandfirstLoop(elems, Tail(nodes))
             Visit(text) == Judge(text, clean_byline_text_with_reason(text))
         IN  Visit(Trim(collect_byline_candidate_text(elems, k)))

extract_standfirst_caps_byline(document) ==
    StandfirstLoop(document.body_elems, StandfirstNodes(document.body_elems))

\* what one rung hands on: whether the cascade has returned, the value it
\* returned, and the fallback candidate kept so far
Stop(value) == [returned |-> TRUE, value |-> value, fallback |-> None]
Continue(fallback) == [returned |-> FALSE, value |-> None, fallback |-> fallback]

\* metadata.rs 407-445 and 448-486: the elements carrying the author
\* relationship, a[rel~='author'] or [itemprop~='author']
AuthorNodes(elems, attr) ==
    SelectSeq(Indices(elems), LAMBDA k :
        IF attr = "rel"
        THEN elems[k].tag = "a" /\ HasWord(elems[k].rel, <<"a", "u", "t", "h", "o", "r">>)
        ELSE HasWord(elems[k].itemprop, <<"a", "u", "t", "h", "o", "r">>))

RECURSIVE AuthorLoop(_, _, _)
AuthorLoop(elems, nodes, attr) ==
    IF nodes = << >> THEN Continue(None)
    ELSE LET k == Head(nodes)
             Judge(parent_text, text, outcome, eligible) ==
                 IF is_ignorable_byline_context(elems, k) \/ is_noise_byline_context(elems, k)
                 THEN AuthorLoop(elems, Tail(nodes), attr)
                 ELSE IF IsSome(parent_text)
                 THEN Stop(Some(DomBylineCandidate(Unwrap(parent_text), "High")))
                 ELSE IF eligible /\ outcome.kind = "Accepted"
                 THEN Stop(Some(DomBylineCandidate(outcome.text, "High")))
                 ELSE IF eligible /\ outcome.kind = "DroppedOrgCredit"
                 THEN Stop(None)
                 ELSE AuthorLoop(elems, Tail(nodes), attr)
             has_author ==
                 HasWordIgnoreCase(IF attr = "rel" THEN elems[k].rel ELSE elems[k].itemprop,
                                   <<"a", "u", "t", "h", "o", "r">>)
             Visit(text) ==
                 Judge(parent_byline_text(elems, k), text, clean_byline_text_with_reason(text),
                       /\ text # << >>
                       /\ (has_author \/ is_valid_byline(elems, k, MatchString(elems, k))))
         IN  Visit(Trim(collect_byline_candidate_text(elems, k)))

\* metadata.rs 488-501
byline_patterns ==
    <<[kind |-> "class", v |-> <<"b", "y", "l", "i", "n", "e">>], [kind |-> "class", v |-> <<"p", "b", "-", "b", "y", "l", "i", "n", "e">>],
      [kind |-> "class", v |-> <<"a", "u", "t", "h", "o", "r">>], [kind |-> "class", v |-> <<"b", "y">>],
      [kind |-> "class", v |-> <<"w", "r", "i", "t", "e", "r">>], [kind |-> "class", v |-> <<"a", "r", "t", "i", "c", "l", "e", "-", "a", "u", "t", "h", "o", "r">>],
      [kind |-> "class", v |-> <<"p", "o", "s", "t", "-", "a", "u", "t", "h", "o", "r">>], [kind |-> "class", v |-> <<"e", "n", "t", "r", "y", "-", "a", "u", "t", "h", "o", "r">>],
      [kind |-> "id", v |-> <<"b", "y", "l", "i", "n", "e">>], [kind |-> "id", v |-> <<"a", "u", "t", "h", "o", "r">>],
      [kind |-> "class*", v |-> <<"a", "u", "t", "h", "o", "r">>], [kind |-> "class*", v |-> <<"b", "y", "l", "i", "n", "e">>]>>

\* the element matches the selector
MatchesPattern(elem, pattern) ==
    CASE pattern.kind = "class" -> HasWord(elem.class, pattern.v)
      [] pattern.kind = "id" -> elem.id = pattern.v
      [] OTHER -> Contains(elem.class, pattern.v)

\* metadata.rs 504-506: pattern by pattern, each in document order
RECURSIVE PatternNodes(_, _)
PatternNodes(elems, patterns) ==
    IF patterns = << >> THEN << >>
    ELSE SelectSeq(Indices(elems), LAMBDA k : MatchesPattern(elems[k], Head(patterns)))
            \o PatternNodes(elems, Tail(patterns))

\* the elements a rung of the lower cascade visits: metadata.rs 504-506,
\* 550-551, 600-601, 635-636
RungNodes(elems, rung_name) ==
    CASE rung_name = "pattern" -> PatternNodes(elems, byline_patterns)
      [] rung_name = "class_id" ->
            SelectSeq(Indices(elems), LAMBDA k : elems[k].class # << >> \/ elems[k].id # << >>)
      [] rung_name = "address" -> SelectSeq(Indices(elems), LAMBDA k : elems[k].tag = "address")
      [] OTHER -> SelectSeq(Indices(elems), LAMBDA k : elems[k].tag \in {"p", "div", "span"})

\* the suppression filters of the rung: metadata.rs 507-512, 552-570,
\* 602-607, 637-642
RungSkips(elems, k, rung_name) ==
    LET class_lower == to_lowercase(elems[k].class)
        id_lower == to_lowercase(elems[k].id)
        suppressed == is_ignorable_byline_context(elems, k) \/ is_noise_byline_context(elems, k)
    IN  CASE rung_name = "pattern" -> ~element_has_byline_keyword(elems, k) /\ suppressed
          [] rung_name = "class_id" ->
                \/ suppressed
                \/ ~(\/ Contains(class_lower, <<"b", "y", "l", "i", "n", "e">>)
                     \/ Contains(class_lower, <<"a", "u", "t", "h", "o", "r">>)
                     \/ Contains(class_lower, <<"c", "r", "e", "d", "i", "t">>)
                     \/ Contains(id_lower, <<"b", "y", "l", "i", "n", "e">>)
                     \/ Contains(id_lower, <<"a", "u", "t", "h", "o", "r">>))
          [] OTHER -> suppressed

\* the longest text the rung looks at, in bytes: metadata.rs 516, 573, 610, 644
RungMaxLen(rung_name) == IF rung_name \in {"pattern", "address"} THEN 100 ELSE 120

\* the test the text has to pass: metadata.rs 524-527, 580-583, 615-618,
\* 648-653
RungAccepts(elems, k, rung_name, text) ==
    CASE rung_name \in {"pattern", "class_id"} ->
            \/ is_valid_byline(elems, k, MatchString(elems, k))
            \/ looks_like_byline(text)
            \/ looks_like_caps_author(text)
      [] rung_name = "address" ->
            \/ looks_like_byline(text)
            \/ is_valid_byline(elems, k, text)
            \/ looks_like_caps_author(text)
      [] OTHER ->
            /\ ~looks_like_dateline(text)
            /\ looks_like_byline(text) \/ looks_like_caps_author(text)

\* every candidate of the byline selectors is High
RungConfidenceSelectorsHigh(elems, k, rung_name) ==
    CASE rung_name = "pattern" -> "High"
      [] rung_name = "class_id" -> "Medium"
      [] OTHER -> "Low"

\* the confidence of the rung's candidates: metadata.rs 528-532, 586, 621, 656
RungConfidence(elems, k, rung_name) ==
    CASE rung_name = "pattern" ->
            IF element_has_explicit_byline_marker(elems, k) THEN "High" ELSE "Medium"
      [] rung_name = "class_id" -> "Medium"
      [] OTHER -> "Low"

\* an organisation credit ends the cascade in every rung
OrgCreditEndsCascadeAlways(rung_name) == rung_name \in {"pattern", "class_id", "address", "generic"}

\* an organisation credit ends the cascade in these rungs (metadata.rs 542,
\* 663) and is passed over in the others (593, 628)
OrgCreditEndsCascade(rung_name) == rung_name \in {"pattern", "generic"}

\* every accepted candidate is returned at once, none is held back
RECURSIVE LowerLoopFirstAccepted(_, _, _, _)
LowerLoopFirstAccepted(elems, nodes, rung_name, fallback) ==
    IF nodes = << >> THEN Continue(fallback)
    ELSE LET k == Head(nodes)
             Judge(outcome, passed) ==
                 IF passed /\ outcome.kind = "Accepted"
                 THEN Stop(Some(DomBylineCandidate(outcome.text,
                                                   RungConfidence(elems, k, rung_name))))
                 ELSE IF passed /\ outcome.kind = "DroppedOrgCredit"
                         /\ OrgCreditEndsCascade(rung_name)
                 THEN Stop(None)
                 ELSE LowerLoopFirstAccepted(elems, Tail(nodes), rung_name, fallback)
             Visit(text) ==
                 Judge(clean_byline_text_with_reason(text),
                       /\ ~RungSkips(elems, k, rung_name)
                       /\ text # << >> /\ ByteLen(text) <= RungMaxLen(rung_name)
                       /\ RungAccepts(elems, k, rung_name, text))
         IN  Visit(Trim(collect_byline_candidate_text(elems, k)))

\* metadata.rs 504-667: one rung of the lower cascade
RECURSIVE LowerLoop(_, _, _, _)
LowerLoop(elems, nodes, rung_name, fallback) ==
    IF nodes = << >> THEN Continue(fallback)
    ELSE LET k == Head(nodes)
             Judge(text_is_caps, outcome, candidate, passed) ==
                 IF passed /\ outcome.kind = "Accepted"
                    /\ is_priority_dom_candidate(candidate, text_is_caps)
                 THEN Stop(Some(candidate))
                 ELSE IF passed /\ outcome.kind = "Accepted"
                 THEN LowerLoop(elems, Tail(nodes), rung_name,
                                IF IsNone(fallback) THEN Some(candidate) ELSE fallback)
                 ELSE IF passed /\ outcome.kind = "DroppedOrgCredit"
                         /\ OrgCreditEndsCascade(rung_name)
                 THEN Stop(None)
                 ELSE LowerLoop(elems, Tail(nodes), rung_name, fallback)
             Clean(text, outcome) ==
                 Judge(looks_like_caps_author(text), outcome,
                       DomBylineCandidate(outcome.text, RungConfidence(elems, k, rung_name)),
                       /\ ~RungSkips(elems, k, rung_name)
                       /\ text # << >> /\ ByteLen(text) <= RungMaxLen(rung_name)
                       /\ RungAccepts(elems, k, rung_name, text))
             Visit(text) == Clean(text, clean_byline_text_with_reason(text))
         IN  Visit(Trim(collect_byline_candidate_text(elems, k)))

\* the rungs below the author relationships, in the order of the code
LowerRungs == <<"pattern", "class_id", "address", "generic">>

\* metadata.rs 504-674
RECURSIVE LowerCascade(_, _, _)
LowerCascade(elems, rungs, fallback) ==
    IF rungs = << >> THEN fallback
    ELSE LET After(step) ==
                 IF step.returned THEN step.value
                 ELSE LowerCascade(elems, Tail(rungs), step.fallback)
         IN  After(LowerLoop(elems, RungNodes(elems, Head(rungs)), Head(rungs), fallback))

\* metadata.rs 396-675
extract_byline_from_document(document) ==
    LET elems == document.body_elems
        Cascade(caps, links, props) ==
            IF IsSome(caps) THEN Some(DomBylineCandidate(Unwrap(caps), "High"))
            ELSE IF links.returned THEN links.value
            ELSE IF props.returned THEN props.value
            ELSE LowerCascade(elems, LowerRungs, None)
    IN  Cascade(extract_standfirst_caps_byline(document),
                AuthorLoop(elems, AuthorNodes(elems, "rel"), "rel"),
                AuthorLoop(elems, AuthorNodes(elems, "itemprop"), "itemprop"))

-----------------------------------------------------------------------------
(* get_article_metadata (metadata.rs 180-368).                              *)

\* Option::map(unescape_html_entities)
UnescapeOpt(o) == IF IsSome(o) THEN Some(unescape_html_entities(Unwrap(o))) ELSE None

\* the title taken from the meta tags before the structured data
ResolveTitleMetaFirst(document, ld, values) ==
    LET tagged == OrOpt(FirstOf(values, TitleKeys), ld.title)
        derived == IF IsNone(tagged) THEN extract_title_from_document(document) ELSE tagged
    IN  IF IsNone(derived) THEN Some(<< >>) ELSE derived

\* metadata.rs 231-250
\* the title left absent when no source yields one
ResolveTitleOptional(document, ld, values) ==
    LET tagged == OrOpt(ld.title, FirstOf(values, TitleKeys))
    IN  IF IsNone(tagged) THEN extract_title_from_document(document) ELSE tagged

ResolveTitle(document, ld, values) ==
    LET tagged == OrOpt(ld.title, FirstOf(values, TitleKeys))
        derived == IF IsNone(tagged) THEN extract_title_from_document(document) ELSE tagged
    IN  IF IsNone(derived) THEN Some(<< >>) ELSE derived

\* metadata.rs 252-256
ArticleAuthor(values) ==
    LET found == FirstOf(values, ArticleAuthorKeys)
    IN  IF IsSome(found) /\ ~is_url(Unwrap(found)) THEN found ELSE None

\* metadata.rs 258-281
ResolveMetaByline(document, ld, values) ==
    LET Fuse(dom_byline, meta_byline) ==
            IF IsNone(dom_byline) THEN meta_byline
            ELSE IF IsNone(meta_byline) THEN Some(Unwrap(dom_byline).text)
            ELSE IF should_prefer_dom_byline(Unwrap(meta_byline), Unwrap(dom_byline).text,
                                             Unwrap(dom_byline).confidence)
                 THEN Some(Unwrap(dom_byline).text)
                 ELSE meta_byline
    IN  Fuse(extract_byline_from_document(document),
             OrOpt(ld.byline, OrOpt(FirstOf(values, BylineKeys), ArticleAuthor(values))))

\* metadata.rs 283-293
ResolveExcerpt(ld, values) == OrOpt(ld.excerpt, FirstOf(values, ExcerptKeys))

\* metadata.rs 295-297
ResolveSiteName(ld, values) == OrOpt(ld.site_name, FirstOf(values, SiteNameKeys))

\* metadata.rs 299-304
ResolvePublishedTime(ld, values) ==
    OrOpt(ld.published_time, FirstOf(values, PublishedKeys))

\* metadata.rs 313-325
CleanExcerpt(excerpt) ==
    IF IsNone(excerpt) THEN None
    ELSE LET e == unescape_html_entities(Unwrap(excerpt))
         IN  IF Trim(e) = << >> \/ looks_like_bracket_menu(Trim(e)) THEN None ELSE Some(e)

\* metadata.rs 309-312
CleanByline(byline) ==
    IF IsNone(byline) THEN None
    ELSE clean_byline_text(unescape_html_entities(Unwrap(byline)))

\* metadata.rs 330-335
ReapplyDomByline(document, byline) ==
    LET Fuse(dom_byline) ==
            IF IsSome(byline) /\ IsSome(dom_byline)
               /\ should_prefer_dom_byline(Unwrap(byline), Unwrap(dom_byline).text,
                                           Unwrap(dom_byline).confidence)
            THEN OrOpt(clean_byline_text(Unwrap(dom_byline).text),
                       Some(Unwrap(dom_byline).text))
            ELSE byline
    IN  Fuse(extract_byline_from_document(document))

\* metadata.rs 346-355
ApplyStandfirst(document, byline) ==
    LET Fuse(caps_candidate) ==
            IF IsNone(caps_candidate) THEN byline
            ELSE IF IsNone(byline) THEN caps_candidate
            ELSE IF should_prefer_caps_standfirst(Unwrap(byline), Unwrap(caps_candidate))
                 THEN caps_candidate
                 ELSE byline
    IN  Fuse(extract_standfirst_caps_byline(document))

\* the byline kept whatever the site name
DropRedundantBylineKept(byline, site_name) == byline

\* metadata.rs 357-361
DropRedundantByline(byline, site_name) ==
    IF IsSome(byline) /\ IsSome(site_name)
       /\ is_byline_redundant_with_site_name(Unwrap(byline), Unwrap(site_name))
    THEN None
    ELSE byline

get_article_metadata(document, ld) ==
    LET values == MetaValues(document)
        Record(site_name, byline) ==
            [title |-> UnescapeOpt(ResolveTitle(document, ld, values)),
             byline |-> DropRedundantByline(byline, site_name),
             excerpt |-> CleanExcerpt(ResolveExcerpt(ld, values)),
             site_name |-> site_name,
             published_time |-> UnescapeOpt(ResolvePublishedTime(ld, values)),
             lang |-> extract_language_from_document(document)]
    IN  Record(UnescapeOpt(ResolveSiteName(ld, values)),
               ApplyStandfirst(document,
                   ReapplyDomByline(document,
                       CleanByline(ResolveMetaByline(document, ld, values)))))

-----------------------------------------------------------------------------
(* Content.  An HTML fragment is a sequence of blocks, one per element:     *)
(*   tag         the element name                                           *)
(*   class, id   the attribute values ("" is << >>)                         *)
(*   role        Option<String>: the role attribute                         *)
(*   text        the text inside the element                                *)
(*   link_chars  how many characters of the text are inside anchors         *)
(*   fault       "none", or the cleaning pass that fails on the element:    *)
(*               "light", "deep" or "both"                                  *)
(* A document carries, besides its metadata sources,                        *)
(*   rungs     the fragment each rung of the retry ladder selects           *)
(*   elems     how many elements the document has                           *)
(*   html_dir  Option<String>: the dir attribute of the html element        *)

Block(tag, class, text) ==
    [tag |-> tag, class |-> class, id |-> << >>, role |-> None, text |-> text,
     link_chars |-> 0, fault |-> "none"]

\* Html::parse_document / Html::parse_fragment: the lenient html5ever parse;
\* an input string is represented by the tree built from it
parse_document(html) == html

JunkTags == {"form", "share", "related"}
InertTags == {"script", "style", "noscript"}

\* cleaner::prep_document on one fragment: script, style and noscript
\* subtrees go, a run of line breaks becomes a paragraph
PrepFragment(fragment) ==
    LET kept == SelectSeq(fragment, LAMBDA b : b.tag \notin InertTags)
    IN  [i \in DOMAIN kept |->
            IF kept[i].tag = "brs" THEN [kept[i] EXCEPT !.tag = "p"] ELSE kept[i]]

\* cleaner::prep_document(&self.html): a new string, the argument is untouched
prep_document(html) ==
    [html EXCEPT !.scripts = << >>,
                 !.rungs = [k \in DOMAIN html.rungs |-> PrepFragment(html.rungs[k])]]

RECURSIVE ConcatTexts(_)
ConcatTexts(fragment) ==
    IF fragment = << >> THEN << >> ELSE Head(fragment).text \o ConcatTexts(Tail(fragment))

\* Readability::get_text_content (readability.rs 230-233)
get_text_content(html) == ConcatTexts(html)

\* the length of the merged text of a selection, in characters
TextLength(fragment) == CharCount(ConcatTexts(fragment))

\* the rungs of the retry ladder, in the order they are tried
Ladder == <<"strict", "relaxed", "body">>

\* content_extractor::grab_article, the element ceiling: 0 is no ceiling
ExceedsCeiling(doc, options) ==
    options.max_elems_to_parse > 0 /\ doc.elems > options.max_elems_to_parse

\* a rung accepted when its text stays within the threshold
RungSucceedsBelow(doc, options, k) == TextLength(doc.rungs[k]) <= options.char_threshold

\* content_extractor::grab_article, one rung: the selection of rung k is
\* accepted when its merged text reaches the character threshold
RungSucceeds(doc, options, k) == TextLength(doc.rungs[k]) >= options.char_threshold

\* cleaner: an element of the junk vocabulary, or an empty leaf
IsJunk(b) == b.tag \in JunkTags \/ b.text = << >>

FaultsOn(fragment, pass) ==
    \E i \in DOMAIN fragment : fragment[i].fault \in {pass, "both"}

\* cleaner::clean_article_content_light(html, base_url): junk and empty leaves
\* go, relative links are made absolute when there is a base URL
clean_article_content_light(html, base_url) ==
    IF FaultsOn(html, "light") THEN Err("clean_light")
    ELSE LET kept == SelectSeq(html, LAMBDA b : ~IsJunk(b))
         IN  Ok([i \in DOMAIN kept |->
                    IF kept[i].tag = "a-rel" /\ IsSome(base_url)
                    THEN [kept[i] EXCEPT !.tag = "a-abs"]
                    ELSE kept[i]])

\* post_processor::prep_article(html): structural rewrites, font becomes span
prep_article(html) ==
    [i \in DOMAIN html |->
        IF html[i].tag = "font" THEN [html[i] EXCEPT !.tag = "span"] ELSE html[i]]

\* the default class preserve-list (options.rs 156)
PreservedClasses == {<<"p", "a", "g", "e">>}

\* cleaner::clean_article_content(html, base_url): junk goes again, class and
\* id attributes go unless preserved
clean_article_content(html, base_url) ==
    IF FaultsOn(html, "deep") THEN Err("clean_deep")
    ELSE LET kept == SelectSeq(html, LAMBDA b : ~IsJunk(b))
         IN  Ok([i \in DOMAIN kept |->
                    [kept[i] EXCEPT
                        !.class = IF @ \in PreservedClasses THEN @ ELSE << >>,
                        !.id = << >>]])

\* dom_utils::get_article_direction(&self.document)
get_article_direction(document) == document.html_dir

-----------------------------------------------------------------------------
(* The excerpt fallback (readability.rs 245-401).                           *)

\* readability.rs 253
MinParagraphLen == 25
\* readability.rs 358
MinTextParagraphLen == 80
\* readability.rs 374
MinTextLen == 40
\* readability.rs 366
MaxExcerptLen == 300

\* readability.rs 291-300
CLASS_KEYWORDS ==
    {<<"h", "a", "t", "n", "o", "t", "e">>,
     <<"s", "h", "o", "r", "t", "d", "e", "s", "c", "r", "i", "p", "t", "i", "o", "n">>,
     <<"m", "e", "t", "a", "d", "a", "t", "a">>,
     <<"n", "a", "v", "b", "o", "x">>,
     <<"d", "a", "b", "l", "i", "n", "k">>,
     <<"n", "o", "p", "r", "i", "n", "t">>,
     <<"m", "w", "e", "-", "m", "a", "t", "h", "-", "e", "l", "e", "m", "e", "n", "t">>,
     <<"m", "w", "-", "e", "m", "p", "t", "y", "-", "e", "l", "t">>}

\* readability.rs 319-325
TEXT_PREFIXES ==
    {<<"s", "e", "e", " ", "a", "l", "s", "o">>,
     <<"c", "o", "o", "r", "d", "i", "n", "a", "t", "e", "s">>,
     <<"n", "a", "v", "i", "g", "a", "t", "i", "o", "n", " ", "m", "e", "n", "u">>,
     <<"e", "x", "t", "e", "r", "n", "a", "l", " ", "l", "i", "n", "k", "s">>,
     <<"f", "u", "r", "t", "h", "e", "r", " ", "r", "e", "a", "d", "i", "n", "g">>}

\* dom_utils::get_link_density(element) > 0.8
LinkDensityAbove08(b) == Len(b.text) > 0 /\ b.link_chars * 10 > Len(b.text) * 8

\* readability.rs 285-335
paragraph_is_excerpt_noise(p, text, class_lower, id_lower) ==
    \/ \E kw \in CLASS_KEYWORDS : Contains(class_lower, kw) \/ Contains(id_lower, kw)
    \/ IsSome(p.role) /\ eq_ignore_ascii_case(Unwrap(p.role), <<"n", "o", "t", "e">>)
    \/ \E prefix \in TEXT_PREFIXES : StartsWith(to_lowercase(text), prefix)
    \/ LinkDensityAbove08(p)

\* the loop without its byline test
ParagraphIsExcerptWithBylines(p) ==
    LET trimmed == Trim(p.text)
        class_lower == to_lowercase(p.class)
        id_lower == to_lowercase(p.id)
    IN  /\ p.tag = "p"
        /\ ~(ByteLen(trimmed) < MinParagraphLen)
        /\ ~looks_like_bracket_menu(trimmed)
        /\ ~paragraph_is_excerpt_noise(p, trimmed, class_lower, id_lower)

\* readability.rs 249-279: does the loop return this paragraph
ParagraphIsExcerpt(p) ==
    LET trimmed == Trim(p.text)
        class_lower == to_lowercase(p.class)
        id_lower == to_lowercase(p.id)
        byline == <<"b", "y", "l", "i", "n", "e">>
        author == <<"a", "u", "t", "h", "o", "r">>
    IN  /\ p.tag = "p"
        /\ ~(ByteLen(trimmed) < MinParagraphLen)
        /\ ~looks_like_bracket_menu(trimmed)
        /\ ~paragraph_is_excerpt_noise(p, trimmed, class_lower, id_lower)
        /\ ~(\/ looks_like_byline(trimmed)
             \/ Contains(class_lower, byline) \/ Contains(class_lower, author)
             \/ Contains(id_lower, byline) \/ Contains(id_lower, author))

\* readability.rs 245-283
generate_excerpt_from_html(html) ==
    LET hits == SelectSeq(html, ParagraphIsExcerpt)
    IN  IF hits = << >> THEN None ELSE Some(Trim(hits[1].text))

\* str::rfind(char::is_whitespace)
RFindWhitespace(s) ==
    IF \E i \in DOMAIN s : IsWhitespace(s[i])
    THEN CHOOSE i \in DOMAIN s :
            IsWhitespace(s[i]) /\ \A j \in (i + 1)..Len(s) : ~IsWhitespace(s[j])
    ELSE 0

\* readability.rs 389-401
truncate_text(text, max_len) ==
    IF CharCount(text) <= max_len THEN text
    ELSE LET truncated == SubSeq(text, 1, max_len)
             last_space_pos == RFindWhitespace(truncated)
         IN  IF last_space_pos > 0 THEN Trim(SubSeq(truncated, 1, last_space_pos - 1))
             ELSE Trim(truncated)

RECURSIVE SplitParagraphs(_, _)
\* str::split("\n\n"), with the piece being read carried in cur
SplitParagraphs(s, cur) ==
    IF \E k \in 1..(Len(s) - 1) : s[k] = "\n" /\ s[k + 1] = "\n"
    THEN LET Cut(k) == << cur \o SubSeq(s, 1, k - 1) >>
                            \o SplitParagraphs(SubSeq(s, k + 2, Len(s)), << >>)
         IN  Cut(CHOOSE k \in 1..(Len(s) - 1) :
                    /\ s[k] = "\n" /\ s[k + 1] = "\n"
                    /\ \A j \in 1..(k - 1) : ~(s[j] = "\n" /\ s[j + 1] = "\n"))
    ELSE << cur \o s >>

\* readability.rs 347-379
generate_excerpt_from_text(text) ==
    LET cleaned == Trim(text)
        hits == SelectSeq(SplitParagraphs(cleaned, << >>), LAMBDA para :
                    ~(ByteLen(Trim(para)) < MinTextParagraphLen)
                    /\ ~looks_like_bracket_menu(Trim(para)))
    IN  IF cleaned = << >> THEN None
        ELSE IF hits # << >> THEN Some(truncate_text(Trim(hits[1]), MaxExcerptLen))
        ELSE IF looks_like_bracket_menu(cleaned) THEN None
        ELSE IF ByteLen(cleaned) > MinTextLen
             THEN Some(truncate_text(cleaned, MaxExcerptLen))
             ELSE None

-----------------------------------------------------------------------------
(* is_probably_readerable (readerable.rs 34-179).  The score is an f64; it  *)
(* is kept here in thousandths, each square root rounded down to the        *)
(* thousandth (exact on the perfect squares).                               *)

\* the largest r in lo..hi with r * r <= x
RECURSIVE SqrtBetween(_, _, _)
SqrtBetween(x, lo, hi) ==
    IF lo = hi THEN lo
    ELSE LET mid == (lo + hi + 1) \div 2
         IN  IF mid * mid <= x THEN SqrtBetween(x, mid, hi) ELSE SqrtBetween(x, lo, mid - 1)

\* the units of the score per 1.0
ScoreScale == 1000

\* f64::sqrt of an integer, in thousandths
Sqrt(x) == SqrtBetween(x * ScoreScale * ScoreScale, 0, 46340)

\* readerable.rs 74-81: ReaderableOptions::default()
DefaultReaderableOptions == [min_content_length |-> 140, min_score |-> 20 * ScoreScale]

\* readerable.rs 154-155: the p, pre and article elements, in document order
Paragraphs(elems) ==
    SelectSeq(Indices(elems), LAMBDA k : elems[k].tag \in {"p", "pre", "article"})

\* the loop returning on a score that reaches the threshold, not only on one
\* that exceeds it
RECURSIVE ScoreLoopReaching(_, _, _, _)
ScoreLoopReaching(elems, paragraphs, options, score) ==
    IF paragraphs = << >> THEN FALSE
    ELSE LET text == ElementText(elems, Head(paragraphs))
             text_len == ByteLen(Trim(text))
             added == score + Sqrt(text_len - options.min_content_length)
         IN  IF text_len < options.min_content_length
             THEN ScoreLoopReaching(elems, Tail(paragraphs), options, score)
             ELSE IF added >= options.min_score THEN TRUE
             ELSE ScoreLoopReaching(elems, Tail(paragraphs), options, added)

\* readerable.rs 163-176: the loop over the paragraphs, with the score so far
RECURSIVE ScoreLoop(_, _, _, _)
ScoreLoop(elems, paragraphs, options, score) ==
    IF paragraphs = << >> THEN FALSE
    ELSE LET text == ElementText(elems, Head(paragraphs))
             text_len == ByteLen(Trim(text))
             added == score + Sqrt(text_len - options.min_content_length)
         IN  IF text_len < options.min_content_length
             THEN ScoreLoop(elems, Tail(paragraphs), options, score)
             ELSE IF added > options.min_score THEN TRUE
             ELSE ScoreLoop(elems, Tail(paragraphs), options, added)

\* readerable.rs 147-179
is_probably_readerable(html, options) ==
    LET opts == IF IsSome(options) THEN Unwrap(options) ELSE DefaultReaderableOptions
        document == parse_document(html)
        paragraphs == Paragraphs(document.body_elems)
    IN  IF paragraphs = << >> THEN FALSE
        ELSE ScoreLoop(document.body_elems, paragraphs, opts, 0)

-----------------------------------------------------------------------------
(* Options (options.rs 59-163) and the Readability struct.                  *)

\* options.rs 155
DefaultCharThreshold == 500

\* ReadabilityOptions::default, the fields the pipeline reads
DefaultOptions ==
    [debug |-> FALSE, max_elems_to_parse |-> 0, char_threshold |-> DefaultCharThreshold,
     disable_json_ld |-> FALSE]

\* the two call sites of the model
Insts == {1, 2, 3}

NoArticle == [returned |-> FALSE, article |-> None]
Pending == [status |-> "pending", v |-> None, e |-> ""]
NoLocals ==
    [preprocessed_doc |-> None, content_html |-> None, cleaned_wrapper_html |-> None,
     prepped_html |-> None, cleaned_html |-> None]

\* the Lazy cell is forced by its first dereference
Force(cell, read) == IF read THEN "ready" ELSE cell

-----------------------------------------------------------------------------
(* Readability::new (readability.rs 131-156).                               *)

\* new without the validation of the URL
NewUnchecked(i) ==
    /\ pc[i] = "new"
    /\ created' = [created EXCEPT ![i] = [status |-> "Ok", e |-> "", url |-> << >>]]
    /\ self' = [self EXCEPT ![i] =
            Some([document |-> parse_document(args[i].html),
                  html |-> args[i].html,
                  base_url |-> args[i].url,
                  options |-> IF IsSome(args[i].options) THEN Unwrap(args[i].options)
                              ELSE DefaultOptions,
                  metadata |-> MetadataDefault])]
    /\ pc' = [pc EXCEPT ![i] = "created"]
    /\ UNCHANGED <<meta_values, args, readerable, json_ld, grab, rung, stage, result, stderr,
                   REGEXPS>>

New(i) ==
    /\ pc[i] = "new"
    /\ LET html == args[i].html
           url == args[i].url
           document == parse_document(html)
       IN  IF IsSome(url) /\ ~is_url(Unwrap(url))
           THEN /\ created' = [created EXCEPT ![i] =
                        [status |-> "Err", e |-> "InvalidUrl", url |-> Unwrap(url)]]
                /\ pc' = [pc EXCEPT ![i] = "failed"]
                /\ UNCHANGED self
           ELSE /\ created' = [created EXCEPT ![i] =
                        [status |-> "Ok", e |-> "", url |-> << >>]]
                /\ self' = [self EXCEPT ![i] =
                        Some([document |-> document,
                              html |-> html,
                              base_url |-> url,
                              options |-> IF IsSome(args[i].options)
                                          THEN Unwrap(args[i].options)
                                          ELSE DefaultOptions,
                              metadata |-> MetadataDefault])]
                /\ pc' = [pc EXCEPT ![i] = "created"]
    /\ UNCHANGED <<meta_values, args, readerable, json_ld, grab, rung, stage, result, stderr,
                   REGEXPS>>

-----------------------------------------------------------------------------
(* Readability::parse (readability.rs 162-227), one action per statement.   *)

\* does get_json_ld evaluate REGEXPS.json_ld_article_types on this script
ScriptReadsRegexps(script) ==
    /\ JsonParses(script)
    /\ IF script.kind = "arr"
       THEN \E k \in DOMAIN script.items : script.items[k].type.kind = "str"
       ELSE /\ has_schema_context(script.o)
            /\ \/ script.o.type.kind = "str"
               \/ /\ script.o.type.kind = "absent" /\ IsSome(script.o.graph)
                  /\ \E k \in DOMAIN Unwrap(script.o.graph) :
                        Unwrap(script.o.graph)[k].type.kind = "str"

JsonLdReadsRegexps(document) ==
    \E k \in DOMAIN document.scripts : ScriptReadsRegexps(document.scripts[k])

\* parse reading the structured data whatever disable_json_ld says
ParseJsonLdAlways(i) ==
    /\ pc[i] = "created"
    /\ LET me == Unwrap(self[i])
       IN  /\ json_ld' = [json_ld EXCEPT ![i] = get_json_ld(me.document, REGEXPS)]
           /\ REGEXPS' = Force(REGEXPS, JsonLdReadsRegexps(me.document))
    /\ pc' = [pc EXCEPT ![i] = "json_ld"]
    /\ UNCHANGED <<meta_values, args, readerable, created, self, grab, rung, stage, result,
                   stderr>>

\* readability.rs 163-167
ParseJsonLd(i) ==
    /\ pc[i] = "created"
    /\ LET me == Unwrap(self[i])
       IN  IF ~me.options.disable_json_ld
           THEN /\ json_ld' = [json_ld EXCEPT ![i] = get_json_ld(me.document, REGEXPS)]
                /\ REGEXPS' = Force(REGEXPS, JsonLdReadsRegexps(me.document))
           ELSE /\ json_ld' = [json_ld EXCEPT ![i] = MetadataDefault]
                /\ UNCHANGED REGEXPS
    /\ pc' = [pc EXCEPT ![i] = "json_ld"]
    /\ UNCHANGED <<meta_values, args, readerable, created, self, grab, rung, stage, result, stderr>>

\* readability.rs 169
ParseMetadata(i) ==
    /\ pc[i] = "json_ld"
    /\ LET me == Unwrap(self[i])
           tagged == OrOpt(json_ld[i].title, FirstOf(MetaValues(me.document), TitleKeys))
       IN  /\ self' = [self EXCEPT ![i] =
                    Some([me EXCEPT !.metadata = get_article_metadata(me.document, json_ld[i])])]
           /\ meta_values' = [meta_values EXCEPT ![i] = MetaValues(me.document)]
           /\ REGEXPS' = Force(REGEXPS, IsNone(tagged) /\ TitleReadsRegexps(me.document))
    /\ pc' = [pc EXCEPT ![i] = "metadata"]
    /\ UNCHANGED <<args, readerable, created, json_ld, grab, rung, stage, result, stderr>>

\* the preprocessor rewriting the document of the instance in place
PrepDocumentInPlace(i) ==
    /\ pc[i] = "metadata"
    /\ stage' = [stage EXCEPT ![i].preprocessed_doc =
                    Some(parse_document(prep_document(Unwrap(self[i]).html)))]
    /\ self' = [self EXCEPT ![i] =
                    Some([Unwrap(self[i]) EXCEPT
                            !.document = parse_document(prep_document(Unwrap(self[i]).html))])]
    /\ pc' = [pc EXCEPT ![i] = "prepped"]
    /\ UNCHANGED <<meta_values, args, readerable, created, json_ld, grab, rung, result,
                   stderr, REGEXPS>>

\* readability.rs 171-172
PrepDocument(i) ==
    /\ pc[i] = "metadata"
    /\ stage' = [stage EXCEPT ![i].preprocessed_doc =
                    Some(parse_document(prep_document(Unwrap(self[i]).html)))]
    /\ pc' = [pc EXCEPT ![i] = "prepped"]
    /\ UNCHANGED <<meta_values, args, readerable, created, self, json_ld, grab, rung, result,
                   stderr, REGEXPS>>

\* readability.rs 174, grab_article: the element ceiling, then the first rung
GrabStart(i) ==
    /\ pc[i] = "prepped"
    /\ IF ExceedsCeiling(Unwrap(stage[i].preprocessed_doc), Unwrap(self[i]).options)
       THEN /\ grab' = [grab EXCEPT ![i] =
                    [status |-> "Err", v |-> None, e |-> "MaxElementsExceeded"]]
            /\ pc' = [pc EXCEPT ![i] = "grabbed"]
       ELSE /\ UNCHANGED grab
            /\ pc' = [pc EXCEPT ![i] = "ladder"]
    /\ UNCHANGED <<meta_values, args, readerable, created, self, json_ld, rung, stage, result,
                   stderr, REGEXPS>>

\* the ladder going from the strict rung straight to the body fallback
AttemptRungSkipsRelaxed(i) ==
    /\ pc[i] = "ladder"
    /\ LET k == IF rung[i] = << >> THEN 1 ELSE Len(Ladder)
           doc == Unwrap(stage[i].preprocessed_doc)
       IN  /\ rung' = [rung EXCEPT ![i] = Append(@, Ladder[k])]
           /\ IF RungSucceeds(doc, Unwrap(self[i]).options, k)
              THEN /\ grab' = [grab EXCEPT ![i] =
                            [status |-> "Ok", v |-> Some(doc.rungs[k]), e |-> ""]]
                   /\ pc' = [pc EXCEPT ![i] = "grabbed"]
              ELSE IF k = Len(Ladder)
              THEN /\ grab' = [grab EXCEPT ![i] = [status |-> "Ok", v |-> None, e |-> ""]]
                   /\ pc' = [pc EXCEPT ![i] = "grabbed"]
              ELSE /\ UNCHANGED grab
                   /\ UNCHANGED pc
    /\ UNCHANGED <<meta_values, args, readerable, created, self, json_ld, stage, result, stderr,
                   REGEXPS>>

\* readability.rs 174, grab_article: the next rung of the retry ladder
AttemptRung(i) ==
    /\ pc[i] = "ladder"
    /\ LET k == Len(rung[i]) + 1
           doc == Unwrap(stage[i].preprocessed_doc)
       IN  /\ rung' = [rung EXCEPT ![i] = Append(@, Ladder[k])]
           /\ IF RungSucceeds(doc, Unwrap(self[i]).options, k)
              THEN /\ grab' = [grab EXCEPT ![i] =
                            [status |-> "Ok", v |-> Some(doc.rungs[k]), e |-> ""]]
                   /\ pc' = [pc EXCEPT ![i] = "grabbed"]
              ELSE IF k = Len(Ladder)
              THEN /\ grab' = [grab EXCEPT ![i] = [status |-> "Ok", v |-> None, e |-> ""]]
                   /\ pc' = [pc EXCEPT ![i] = "grabbed"]
              ELSE /\ UNCHANGED grab
                   /\ UNCHANGED pc
    /\ UNCHANGED <<meta_values, args, readerable, created, self, json_ld, stage, result, stderr,
                   REGEXPS>>

\* Result::unwrap_or_else(|_| fallback)
UnwrapOrElse(r, fallback) == IF r.ok THEN r.v ELSE fallback

\* readability.rs 175-178
CleanLight(i) ==
    /\ pc[i] = "grabbed" /\ grab[i].status = "Ok" /\ IsSome(grab[i].v)
    /\ LET content_html == Unwrap(grab[i].v)
       IN  stage' = [stage EXCEPT
                ![i].content_html = Some(content_html),
                ![i].cleaned_wrapper_html =
                    Some(UnwrapOrElse(
                            clean_article_content_light(content_html,
                                                        Unwrap(self[i]).base_url),
                            content_html))]
    /\ pc' = [pc EXCEPT ![i] = "light"]
    /\ UNCHANGED <<meta_values, args, readerable, created, self, json_ld, grab, rung, result,
                   stderr, REGEXPS>>

\* readability.rs 180
PrepArticle(i) ==
    /\ pc[i] = "light"
    /\ stage' = [stage EXCEPT ![i].prepped_html =
                    Some(prep_article(Unwrap(stage[i].cleaned_wrapper_html)))]
    /\ pc' = [pc EXCEPT ![i] = "post"]
    /\ UNCHANGED <<meta_values, args, readerable, created, self, json_ld, grab, rung, result,
                   stderr, REGEXPS>>

\* readability.rs 181-190
CleanDeep(i) ==
    /\ pc[i] = "post"
    /\ LET prepped_html == Unwrap(stage[i].prepped_html)
           cleaned == clean_article_content(prepped_html, Unwrap(self[i]).base_url)
       IN  /\ stage' = [stage EXCEPT ![i].cleaned_html =
                            Some(IF cleaned.ok THEN cleaned.v ELSE prepped_html)]
           /\ stderr' = [stderr EXCEPT ![i] =
                            IF ~cleaned.ok /\ Unwrap(self[i]).options.debug
                            THEN Append(@, "Error cleaning content")
                            ELSE @]
    /\ pc' = [pc EXCEPT ![i] = "deep"]
    /\ UNCHANGED <<meta_values, args, readerable, created, self, json_ld, grab, rung, result,
                   REGEXPS>>

\* String::len (readability.rs 193)
StringLen(s) == ByteLen(s)

\* a record whose content is left out when cleaning leaves nothing
MakeArticleDropsEmpty(me, content_html, cleaned_html) ==
    LET text_content == get_text_content(cleaned_html)
    IN  [title |-> me.metadata.title,
         content |-> IF cleaned_html = << >> THEN None ELSE Some(cleaned_html),
         raw_content |-> Some(content_html),
         text_content |-> IF text_content = << >> THEN None ELSE Some(text_content),
         length |-> StringLen(text_content),
         excerpt |-> OrOpt(me.metadata.excerpt,
                           OrOpt(generate_excerpt_from_html(cleaned_html),
                                 generate_excerpt_from_text(text_content))),
         byline |-> me.metadata.byline,
         dir |-> get_article_direction(me.document),
         site_name |-> me.metadata.site_name,
         lang |-> me.metadata.lang,
         published_time |-> me.metadata.published_time]

\* a record whose raw content is taken after the cleaning passes
MakeArticleRawAfterCleaning(me, content_html, cleaned_html) ==
    LET text_content == get_text_content(cleaned_html)
    IN  [title |-> me.metadata.title,
         content |-> Some(cleaned_html),
         raw_content |-> Some(cleaned_html),
         text_content |-> Some(text_content),
         length |-> StringLen(text_content),
         excerpt |-> OrOpt(me.metadata.excerpt,
                           OrOpt(generate_excerpt_from_html(cleaned_html),
                                 generate_excerpt_from_text(text_content))),
         byline |-> me.metadata.byline,
         dir |-> get_article_direction(me.document),
         site_name |-> me.metadata.site_name,
         lang |-> me.metadata.lang,
         published_time |-> me.metadata.published_time]

\* readability.rs 192-217
MakeArticle(me, content_html, cleaned_html) ==
    LET text_content == get_text_content(cleaned_html)
    IN  [title |-> me.metadata.title,
         content |-> Some(cleaned_html),
         raw_content |-> Some(content_html),
         text_content |-> Some(text_content),
         length |-> StringLen(text_content),
         excerpt |-> OrOpt(me.metadata.excerpt,
                           OrOpt(generate_excerpt_from_html(cleaned_html),
                                 generate_excerpt_from_text(text_content))),
         byline |-> me.metadata.byline,
         dir |-> get_article_direction(me.document),
         site_name |-> me.metadata.site_name,
         lang |-> me.metadata.lang,
         published_time |-> me.metadata.published_time]

\* readability.rs 192-218
BuildArticle(i) ==
    /\ pc[i] = "deep"
    /\ result' = [result EXCEPT ![i] =
            [returned |-> TRUE,
             article |-> Some(MakeArticle(Unwrap(self[i]), Unwrap(stage[i].content_html),
                                          Unwrap(stage[i].cleaned_html)))]]
    /\ pc' = [pc EXCEPT ![i] = "done"]
    /\ UNCHANGED <<meta_values, args, readerable, created, self, json_ld, grab, rung, stage,
                   stderr, REGEXPS>>

\* readability.rs 219
GrabNone(i) ==
    /\ pc[i] = "grabbed" /\ grab[i].status = "Ok" /\ IsNone(grab[i].v)
    /\ result' = [result EXCEPT ![i] = [returned |-> TRUE, article |-> None]]
    /\ pc' = [pc EXCEPT ![i] = "done"]
    /\ UNCHANGED <<meta_values, args, readerable, created, self, json_ld, grab, rung, stage,
                   stderr, REGEXPS>>

\* parse letting the error of grab_article escape instead of returning
GrabErrPropagates(i) ==
    /\ pc[i] = "grabbed" /\ grab[i].status = "Err"
    /\ pc' = [pc EXCEPT ![i] = "panic"]
    /\ UNCHANGED <<meta_values, args, readerable, created, self, json_ld, grab, rung, stage, result,
                   stderr, REGEXPS>>

\* readability.rs 220-225
GrabErr(i) ==
    /\ pc[i] = "grabbed" /\ grab[i].status = "Err"
    /\ stderr' = [stderr EXCEPT ![i] =
            IF Unwrap(self[i]).options.debug THEN Append(@, "Error grabbing article") ELSE @]
    /\ result' = [result EXCEPT ![i] = [returned |-> TRUE, article |-> None]]
    /\ pc' = [pc EXCEPT ![i] = "done"]
    /\ UNCHANGED <<meta_values, args, readerable, created, self, json_ld, grab, rung, stage,
                   REGEXPS>>

-----------------------------------------------------------------------------
(* is_probably_readerable(html, options), called on its own.                *)

IsProbablyReaderable(i) ==
    /\ pc[i] = "check"
    /\ readerable' = [readerable EXCEPT ![i] =
            Some(is_probably_readerable(args[i].html, args[i].options))]
    /\ pc' = [pc EXCEPT ![i] = "checked"]
    /\ UNCHANGED <<meta_values, args, created, self, json_ld, grab, rung, stage, result,
                   stderr, REGEXPS>>

-----------------------------------------------------------------------------
(* The documents, options and URLs the model runs the library on.           *)

P(text) == Block("p", << >>, text)
WithFault(b, pass) == [b EXCEPT !.fault = pass]

\* fragments: their text has 0, 1, 2, 4, 3, 3 and 30 characters
Empty == << >>
Word == << P(<<"a">>) >>
TwoWords == << P(<<"a">>), P(<<"b">>) >>
Accent == << P(<<"c", "a", "f", "eacute">>) >>
Shared == << P(<<"a", "b">>), Block("share", << >>, <<"x">>) >>
Styled ==
    << Block("font", <<"p", "a", "g", "e">>, <<"a", "euro">>),
       Block("script", << >>, <<"z">>),
       Block("p", <<"x">>, <<"b">>) >>
Prose == << P(<<"t", "h", "e", " ", "q", "u", "i", "c", "k", " ", "b", "r", "o", "w", "n", " ", "f", "o", "x", " ", "j", "u", "m", "p", "s", " ", "o", "v", "e", "r">>) >>
OnlyJunk == << Block("share", << >>, <<"x", "y", "z">>) >>
FaultyShared(pass) == << WithFault(P(<<"a", "b">>), pass), Block("share", << >>, <<"x">>) >>

\* what the strict, the relaxed and the body rung select in a document
RungTriples ==
    { <<Empty, Empty, Empty>>,
      <<Empty, Word, TwoWords>>,
      <<Word, Accent, Accent>>,
      <<Shared, Shared, Shared>>,
      <<FaultyShared("light"), Shared, Shared>>,
      <<FaultyShared("deep"), Shared, Shared>>,
      <<FaultyShared("both"), Shared, Shared>>,
      <<OnlyJunk, OnlyJunk, OnlyJunk>>,
      <<Styled, Styled, Prose>> }

ArticleObj ==
    [EmptyObj EXCEPT !.ctx = StrCtx("https://schema.org"), !.type = StrType("Article"),
                     !.headline = Some(<<"L", "D">>),
                     !.description = Some(<<"l", "d">>)]

BaseDoc ==
    [scripts |-> << >>, metas |-> << >>, title |-> Some(<<"T">>), headings |-> << >>,
     root_first_child |-> [name |-> "head", lang |-> None],
     body_elems |-> << >>, html_dir |-> None,
     rungs |-> <<Empty, Empty, Empty>>, elems |-> 1]

ScriptLists == { << >>, <<BadScript>>, <<BadScript, ObjScript(ArticleObj)>> }

Docs ==
    { [BaseDoc EXCEPT !.scripts = sc, !.rungs = r, !.elems = e] :
        sc \in ScriptLists, r \in RungTriples, e \in 1..MaxElems }

OptionValues ==
    { [debug |-> d, max_elems_to_parse |-> m, char_threshold |-> t, disable_json_ld |-> j] :
        d \in BOOLEAN, m \in 0..(MaxElems - 1), t \in 0..MaxThreshold, j \in BOOLEAN }

ValidUrls == { <<"https", "://", "example.com">>, <<"http", "://", "example.com", "/", "a">> }
InvalidUrls == { <<"not", " ", "a", " ", "url">>, <<"bad-url">> }

Args ==
    { [html |-> h, url |-> u, options |-> o] :
        h \in Docs,
        u \in {None} \cup {Some(x) : x \in ValidUrls \cup InvalidUrls},
        o \in {None} \cup {Some(x) : x \in OptionValues} }

-----------------------------------------------------------------------------
(* Initial states.                                                          *)

StartAt(a, live, at) ==
    /\ args = a
    /\ pc = [i \in Insts |-> IF i \in live THEN at ELSE "off"]
    /\ created = [i \in Insts |-> [status |-> "pending", e |-> "", url |-> << >>]]
    /\ self = [i \in Insts |-> None]
    /\ json_ld = [i \in Insts |-> MetadataDefault]
    /\ meta_values = [i \in Insts |-> EmptyMap]
    /\ grab = [i \in Insts |-> Pending]
    /\ rung = [i \in Insts |-> << >>]
    /\ stage = [i \in Insts |-> NoLocals]
    /\ result = [i \in Insts |-> NoArticle]
    /\ readerable = [i \in Insts |-> None]
    /\ stderr = [i \in Insts |-> << >>]
    /\ REGEXPS = "uninit"

\* the call sites in live are about to call Readability::new
Start(a, live) == StartAt(a, live, "new")

\* one call site: Readability::new(html, url, options) and then parse
Init == \E a \in Args : Start([i \in Insts |-> a], {1})

Next ==
    \E i \in Insts :
        \/ New(i)
        \/ ParseJsonLd(i)
        \/ ParseMetadata(i)
        \/ PrepDocument(i)
        \/ GrabStart(i)
        \/ AttemptRung(i)
        \/ CleanLight(i)
        \/ PrepArticle(i)
        \/ CleanDeep(i)
        \/ BuildArticle(i)
        \/ GrabNone(i)
        \/ GrabErr(i)

Spec == Init /\ [][Next]_vars

-----------------------------------------------------------------------------
(* A batch: three call sites whose calls interleave.                        *)

WordsDoc ==
    [BaseDoc EXCEPT !.scripts = <<ObjScript(ArticleObj)>>,
                    !.rungs = <<Empty, Word, Word>>, !.elems = MaxElems]
AccentDoc == [BaseDoc EXCEPT !.rungs = <<Word, Accent, Accent>>]

BatchOptions ==
    { [DefaultOptions EXCEPT !.char_threshold = t] : t \in 0..MaxThreshold }
        \cup { [DefaultOptions EXCEPT !.char_threshold = 0,
                                      !.max_elems_to_parse = MaxElems - 1] }

BatchArgs ==
    { [html |-> h, url |-> None, options |-> Some(o)] :
        h \in {WordsDoc, AccentDoc}, o \in BatchOptions }

ThirdArgs ==
    { [html |-> h, url |-> None,
       options |-> Some([DefaultOptions EXCEPT !.char_threshold = 0])] :
        h \in {WordsDoc, AccentDoc} }

InitBatch ==
    \E a \in BatchArgs, b \in BatchArgs, c \in ThirdArgs : Start(<<a, b, c>>, Insts)

SpecBatch == InitBatch /\ [][Next]_vars

-----------------------------------------------------------------------------
(* The metadata resolver on its own: new, get_json_ld, get_article_metadata. *)

PropMeta(toks, content) ==
    [name |-> None, property |-> Some(toks), content |-> Some(content), http_equiv |-> None]
NameMeta(tok, content) ==
    [name |-> Some(tok), property |-> None, content |-> Some(content), http_equiv |-> None]

MetaPool ==
    { PropMeta(<<AttrTok("og", ":", "title")>>, <<"A">>),
      PropMeta(<<AttrTok("og", ":", "title")>>, <<"B">>),
      NameMeta([AttrTok("og", ".", "title") EXCEPT !.upper = TRUE], <<" ", "C", " ">>),
      PropMeta(<<AttrTok("og", ":", "description"), AttrTok("twitter", ":", "title")>>,
               <<"D">>),
      NameMeta(AttrTok("", "", "description"), <<"E", "&amp;">>),
      PropMeta(<<AttrTok("og", ":", "site_name")>>, <<"S">>),
      PropMeta(<<AttrTok("article", ":", "published_time")>>, <<"2", "0">>),
      NameMeta(AttrTok("", "", "title"), <<" ">>) }

MetaLists == UNION { [1..n -> MetaPool] : n \in 0..MaxMetas }

FullArticle ==
    [ArticleObj EXCEPT !.name = Some(<<"N">>), !.publisher = Some(<<"P">>),
                       !.datePublished = Some(<<"2", "1">>)]
BlankArticle ==
    [ArticleObj EXCEPT !.headline = None, !.description = Some(<<" ">>)]

MetaScriptLists ==
    { << >>, <<ObjScript(FullArticle)>>, <<ObjScript(ArticleObj)>>,
      <<BadScript, ObjScript(BlankArticle)>> }

TitleElements ==
    { None, Some(<<"T">>),
      Some(<<"S", "i", "t", "e", " ", "|", " ", "a", " ", "b", " ", "c", " ", "d", " ", "e">>) }

MetaDocs ==
    { [BaseDoc EXCEPT !.scripts = sc, !.metas = m, !.title = t] :
        sc \in MetaScriptLists, m \in MetaLists, t \in TitleElements }

MetaArgs ==
    { [html |-> h, url |-> None,
       options |-> Some([DefaultOptions EXCEPT !.disable_json_ld = j])] :
        h \in MetaDocs, j \in BOOLEAN }

InitMeta == \E a \in MetaArgs : Start([i \in Insts |-> a], {1})

NextMeta ==
    \E i \in Insts :
        \/ New(i)
        \/ ParseJsonLd(i)
        \/ ParseMetadata(i)

SpecMeta == InitMeta /\ [][NextMeta]_vars

-----------------------------------------------------------------------------
(* Structured data: construction, get_json_ld and get_article_metadata      *)
(* over documents whose blocks vary in context, type, nesting and in the    *)
(* members the title is taken from.                                         *)

LdNames == { None, Some(<<"N">>), Some(<<" ", "P", " ">>) }
LdPublishers == { None, Some(<<"P">>) }
LdHeadlines == { None, Some(<<" ", "H", " ">>) }
LdContexts ==
    { NoCtx, [kind |-> "other", v |-> ""],
      StrCtx("https://schema.org"), StrCtx("http://schema.org/"),
      StrCtx("https://schema.org/docs"),
      VocabCtx("http://schema.org"), VocabCtx("https://example.org") }
LdTypes == { NoType, ListType, StrType("Article"), StrType("NewsArticle"), StrType("Person") }

LdObjects ==
    { [EmptyObj EXCEPT !.name = n, !.publisher = p, !.headline = h, !.ctx = c, !.type = t] :
        n \in LdNames, p \in LdPublishers, h \in LdHeadlines, c \in LdContexts, t \in LdTypes }

PersonItem == [EmptyObj EXCEPT !.type = StrType("Person"), !.name = Some(<<"X">>)]

\* the object alone, inside a top-level array, or under the @graph of an
\* object that has the context and has or lacks a type of its own
LdScripts ==
    { ObjScript(o) : o \in LdObjects }
    \cup { ArrScript(<<PersonItem, o>>) : o \in LdObjects }
    \cup { ObjScript([EmptyObj EXCEPT !.ctx = o.ctx, !.type = t,
                                      !.graph = Some(<<PersonItem, [o EXCEPT !.ctx = NoCtx]>>)]) :
             o \in LdObjects, t \in {NoType, StrType("WebPage")} }

LdScriptLists ==
    { <<s>> : s \in LdScripts } \cup { <<ObjScript(ArticleObj), s>> : s \in LdScripts }

LdArgs ==
    { [html |-> [BaseDoc EXCEPT !.scripts = sc], url |-> None,
       options |-> Some([DefaultOptions EXCEPT !.disable_json_ld = j])] :
        sc \in LdScriptLists, j \in BOOLEAN }

InitLd == \E a \in LdArgs : Start([i \in Insts |-> a], {1})

SpecLd == InitLd /\ [][NextMeta]_vars

-----------------------------------------------------------------------------
(* Bylines: construction, get_json_ld and get_article_metadata over         *)
(* documents whose elements feed the DOM byline cascade.                    *)

WithAttr(elem, rel, itemprop) == [elem EXCEPT !.rel = rel, !.itemprop = itemprop]

\* <p class="byline">By <span>Erin Kay</span></p>
TaggedByline == <<Elem("p", <<"b", "y", "l", "i", "n", "e">>, <<"B", "y", " ">>, 0), Elem("span", << >>, <<"E", "r", "i", "n", " ", "K", "a", "y">>, 1)>>

\* <p class="byline"><span itemprop="author"><span itemprop="name">Joe Wee</span></span></p>
SemanticByline ==
    <<Elem("p", <<"b", "y", "l", "i", "n", "e">>, << >>, 0),
      WithAttr(Elem("span", << >>, << >>, 1), << >>, <<"a", "u", "t", "h", "o", "r">>),
      WithAttr(Elem("span", << >>, <<"J", "o", "e", " ", "W", "e", "e">>, 2), << >>, <<"n", "a", "m", "e">>)>>

BylineElemLists ==
    { << >>,
      TaggedByline,
      SemanticByline,
      \* a plain author block, then an address that reads as a byline
      <<Elem("p", <<"a", "u", "t", "h", "o", "r">>, <<"J", "a", "n", "e", " ", "D", "o", "e">>, 0), Elem("address", << >>, <<"B", "y", " ", "A", "l", " ", "R", "o", "e">>, 0)>>,
      \* two plain author blocks
      <<Elem("p", <<"a", "u", "t", "h", "o", "r">>, <<"J", "a", "n", "e", " ", "D", "o", "e">>, 0), Elem("div", <<"c", "r", "e", "d", "i", "t">>, <<"A", "l", " ", "R", "o", "e">>, 0)>>,
      \* an agency behind an author link, then a tagged byline
      <<WithAttr(Elem("a", << >>, <<"A", "F", "P">>, 0), <<"a", "u", "t", "h", "o", "r">>, << >>)>> \o
          <<Elem("p", <<"b", "y", "l", "i", "n", "e">>, <<"B", "y", " ", "E", "r", "i", "n", " ", "K", "a", "y">>, 0)>>,
      \* an author link after a tagged byline
      <<Elem("p", <<"b", "y", "l", "i", "n", "e">>, <<"B", "y", " ", "E", "r", "i", "n", " ", "K", "a", "y">>, 0),
        WithAttr(Elem("a", << >>, <<"J", "a", "n", "e", " ", "D", "o", "e">>, 0), <<"a", "u", "t", "h", "o", "r">>, << >>)>>,
      \* an all-caps byline inside a standfirst, after an author link
      <<WithAttr(Elem("a", << >>, <<"J", "a", "n", "e", " ", "D", "o", "e">>, 0), <<"a", "u", "t", "h", "o", "r">>, << >>),
        Elem("div", <<"s", "t", "a", "n", "d", "f", "i", "r", "s", "t">>, << >>, 0), Elem("em", <<"b", "y", "l", "i", "n", "e">>, <<"J", "O", "E", " ", "H", "I", "L", "L">>, 2)>>,
      \* a byline that repeats the place name
      <<Elem("p", <<"b", "y", "l", "i", "n", "e">>, <<"C", "a", "i", "r", "o">>, 0)>>,
      \* a place name and a byline in generic blocks, the byline in a promo
      <<Elem("span", << >>, <<"C", "A", "I", "R", "O">>, 0), Elem("div", <<"p", "r", "o", "m", "o">>, << >>, 0),
        Elem("p", << >>, <<"B", "y", " ", "E", "r", "i", "n", " ", "K", "a", "y">>, 2), Elem("p", << >>, <<"B", "y", " ", "A", "l", " ", "R", "o", "e">>, 0)>>,
      \* an agency in a block with a byline id, then an address
      <<[Elem("div", << >>, <<"A", "F", "P">>, 0) EXCEPT
            !.id = <<"t", "o", "p", "-", "b", "y", "l", "i", "n", "e">>],
        Elem("address", << >>, <<"B", "y", " ", "A", "l", " ", "R", "o", "e">>, 0)>>,
      \* a byline written with a character reference
      <<Elem("p", <<"b", "y", "l", "i", "n", "e">>, <<"B", "y", " ", "A", "&amp;", "B">>, 0)>> }

AuthorMeta(content) == NameMeta(AttrTok("", "", "author"), content)
SiteNameMeta(content) == PropMeta(<<AttrTok("og", ":", "site_name")>>, content)

BylineMetaLists ==
    { authors \o sites :
        authors \in { << >>, <<AuthorMeta(<<"C", "A", "I", "R", "O">>)>>, <<AuthorMeta(<<"A", "F", "P">>)>>,
                      <<AuthorMeta(<<"J", "a", "n", "e", " ", "D", "o", "e">>)>> },
        sites \in { << >>, <<SiteNameMeta(<<"S", " ", "|", " ", "B", "Y", ":", " ", "J", "o", "e", " ", "W", "e", "e">>)>>,
                    <<SiteNameMeta(<<"J", "a", "n", "e", " ", "D", "o", "e", " ", "|", " ", "J", "O", "E", " ", "H", "I", "L", "L">>)>> } }

AuthoredArticle ==
    [ArticleObj EXCEPT !.author = AuthorObj(Some(<<" ", "R", "e", "u", "t", "e", "r", "s", " ">>)),
                       !.headline = Some(<<"L", "D", " ">>)]

BylineScriptLists ==
    { << >>, <<ObjScript(ArticleObj)>>, <<BadScript, ObjScript(AuthoredArticle)>> }

BylineDocs ==
    { [BaseDoc EXCEPT !.scripts = sc, !.metas = m, !.body_elems = e] :
        sc \in BylineScriptLists, m \in BylineMetaLists, e \in BylineElemLists }

BylineArgs == { [html |-> h, url |-> None, options |-> None] : h \in BylineDocs }

InitByline == \E a \in BylineArgs : Start([i \in Insts |-> a], {1})

SpecByline == InitByline /\ [][NextMeta]_vars

-----------------------------------------------------------------------------
(* A pair of calls: a document parsed with disable_json_ld set, and the     *)
(* same document without its JSON-LD script elements.                       *)

\* the document without its script elements of type application/ld+json
StripJsonLd(document) == [document EXCEPT !.scripts = << >>]

PairDocs ==
    { [BaseDoc EXCEPT !.scripts = sc, !.metas = m, !.rungs = r, !.elems = MaxElems] :
        sc \in { <<ObjScript(FullArticle)>>, <<BadScript, ObjScript(AuthoredArticle)>> },
        m \in { << >>,
                <<PropMeta(<<AttrTok("og", ":", "title")>>, <<"A">>),
                  AuthorMeta(<<"J", "a", "n", "e", " ", "D", "o", "e">>)>> },
        r \in { <<Empty, Word, Word>>, <<Word, Accent, Accent>> } }

PairOptions ==
    { [o EXCEPT !.disable_json_ld = TRUE] : o \in BatchOptions }

InitPair ==
    \E h \in PairDocs, o \in PairOptions, j \in BOOLEAN :
        Start(<<[html |-> h, url |-> None, options |-> Some(o)],
                [html |-> StripJsonLd(h), url |-> None,
                 options |-> Some([o EXCEPT !.disable_json_ld = j])],
                [html |-> h, url |-> None, options |-> Some(o)]>>,
              {1, 2})

SpecPair == InitPair /\ [][Next]_vars

-----------------------------------------------------------------------------
(* The cascade: construction, get_json_ld and get_article_metadata over     *)
(* documents whose elements exercise the suppression filters, the           *)
(* confidence of each rung and the organisation credits.                    *)

\* a footer block, n - 2 nested blocks under it and a paragraph inside
Chain(n) ==
    [k \in 1..n |->
        IF k = 1 THEN Elem("div", <<"f", "o", "o", "t", "e", "r">>, << >>, 0)
        ELSE IF k < n THEN Elem("div", << >>, << >>, k - 1)
        ELSE Elem("p", << >>, <<"B", "y", " ", "A", "l", " ", "R", "o", "e">>, n - 1)]

SuppressedElemLists ==
    { \* a tagged byline inside a promo block
      <<Elem("div", <<"p", "r", "o", "m", "o">>, << >>, 0), Elem("p", <<"b", "y", "l", "i", "n", "e">>, <<"B", "y", " ", "E", "r", "i", "n", " ", "K", "a", "y">>, 1)>>,
      \* an author block inside a comment block, then an address
      <<Elem("div", <<"c", "o", "m", "m", "e", "n", "t">>, << >>, 0), Elem("span", <<"a", "u", "t", "h", "o", "r">>, <<"J", "a", "n", "e", " ", "D", "o", "e">>, 1),
        Elem("address", << >>, <<"B", "y", " ", "A", "l", " ", "R", "o", "e">>, 0)>>,
      \* a credit block inside a sidebar
      <<Elem("div", <<"s", "i", "d", "e", "b", "a", "r">>, << >>, 0), Elem("div", <<"p", "h", "o", "t", "o", "-", "c", "r", "e", "d", "i", "t">>, <<"B", "y", " ", "A", "l", " ", "R", "o", "e">>, 1)>>,
      \* an author link inside a widget, then a generic block
      <<Elem("div", <<"p", "r", "o", "f", "i", "l", "e", " ", "w", "i", "d", "g", "e", "t">>, << >>, 0),
        WithAttr(Elem("a", << >>, <<"J", "a", "n", "e", " ", "D", "o", "e">>, 1), <<"a", "u", "t", "h", "o", "r">>, << >>),
        Elem("p", << >>, <<"B", "y", " ", "A", "l", " ", "R", "o", "e">>, 0)>>,
      \* an address inside a share block
      <<[Elem("div", << >>, << >>, 0) EXCEPT !.id = <<"S", "h", "a", "r", "e", "-", "B", "a", "r">>],
        Elem("address", << >>, <<"B", "y", " ", "A", "l", " ", "R", "o", "e">>, 1)>>,
      \* the footer is the 16th, or the 17th, ancestor of the paragraph
      Chain(17), Chain(18) }

\* an all-caps name in an element of each rung
ConfidenceElemLists ==
    { <<WithAttr(Elem("a", << >>, <<"J", "O", "E", " ", "H", "I", "L", "L">>, 0), <<"a", "u", "t", "h", "o", "r">>, << >>)>>,
      <<WithAttr(Elem("span", << >>, <<"J", "O", "E", " ", "H", "I", "L", "L">>, 0), << >>, <<"a", "u", "t", "h", "o", "r">>)>>,
      <<Elem("p", <<"a", "u", "t", "h", "o", "r">>, <<"J", "O", "E", " ", "H", "I", "L", "L">>, 0)>>,
      <<[Elem("p", <<"a", "u", "t", "h", "o", "r">>, <<"J", "O", "E", " ", "H", "I", "L", "L">>, 0) EXCEPT !.id = <<"t", "o", "p", "-", "B", "y", "l", "i", "n", "e">>]>>,
      <<Elem("p", <<"b", "y", "l", "i", "n", "e">>, <<"J", "O", "E", " ", "H", "I", "L", "L">>, 0)>>,
      <<Elem("div", <<"p", "h", "o", "t", "o", "-", "c", "r", "e", "d", "i", "t">>, <<"J", "O", "E", " ", "H", "I", "L", "L">>, 0)>>,
      <<Elem("address", << >>, <<"J", "O", "E", " ", "H", "I", "L", "L">>, 0)>>,
      <<Elem("span", << >>, <<"J", "O", "E", " ", "H", "I", "L", "L">>, 0)>>,
      \* inside an element that names a byline, an author link
      <<Elem("p", <<"b", "y", "l", "i", "n", "e">>, << >>, 0),
        WithAttr(Elem("a", << >>, <<"J", "O", "E", " ", "H", "I", "L", "L">>, 1), <<"a", "u", "t", "h", "o", "r">>, << >>)>> }

\* tagged bylines that repeat, extend or ignore the author of the meta tag
ContainingElemLists ==
    { <<Elem("p", <<"b", "y", "l", "i", "n", "e">>, <<"J", "a", "n", "e", " ", "D", "o", "e">>, 0)>>,
      <<Elem("p", <<"b", "y", "l", "i", "n", "e">>, <<"B", "y", " ", "J", "a", "n", "e", " ", "D", "o", "e">>, 0)>>,
      <<Elem("p", <<"b", "y", "l", "i", "n", "e">>, <<"j", "a", "n", "e", " ", "d", "o", "e">>, 0)>>,
      <<Elem("p", <<"b", "y", "l", "i", "n", "e">>, <<"J", "a", "n", "e", " ", "D", "o", "e", ",", " ", "S", "t", "a", "f", "f">>, 0)>>,
      <<Elem("p", <<"b", "y", "l", "i", "n", "e">>, <<"J", "a", "n", "e", " ", "D", "o", "e", " ", "|", " ", "u", "p", "d", "a", "t", "e", "d", " ", "1", "2", " ", "M", "a", "y">>, 0)>>,
      <<Elem("p", <<"b", "y", "l", "i", "n", "e">>, <<"A", "l", " ", "R", "o", "e">>, 0)>> }

\* organisation credits met by each rung, with a byline before or after
CreditElemLists ==
    { \* behind an itemprop element, then a tagged byline
      <<WithAttr(Elem("span", << >>, <<"A", "F", "P">>, 0), << >>, <<"a", "u", "t", "h", "o", "r">>),
        Elem("p", <<"b", "y", "l", "i", "n", "e">>, <<"B", "y", " ", "E", "r", "i", "n", " ", "K", "a", "y">>, 0)>>,
      \* a plain name among the byline selectors, then a credit among them
      <<Elem("p", <<"b", "y", "l", "i", "n", "e">>, <<"J", "a", "n", "e", " ", "D", "o", "e">>, 0), Elem("p", <<"a", "u", "t", "h", "o", "r">>, <<"A", "F", "P">>, 0)>>,
      \* a plain name among the byline selectors, then a credit in a generic block
      <<Elem("p", <<"a", "u", "t", "h", "o", "r">>, <<"J", "a", "n", "e", " ", "D", "o", "e">>, 0), Elem("span", << >>, <<"A", "S", "S", "O", "C", "I", "A", "T", "E", "D", " ", "P", "R", "E", "S", "S">>, 0)>>,
      \* a credit in an address, then a byline in a generic block
      <<Elem("address", << >>, <<"A", "S", "S", "O", "C", "I", "A", "T", "E", "D", " ", "P", "R", "E", "S", "S">>, 0), Elem("span", << >>, <<"B", "y", " ", "A", "l", " ", "R", "o", "e">>, 0)>>,
      \* a plain name among the byline selectors, then a credit in an address
      <<Elem("p", <<"a", "u", "t", "h", "o", "r">>, <<"J", "a", "n", "e", " ", "D", "o", "e">>, 0), Elem("address", << >>, <<"A", "S", "S", "O", "C", "I", "A", "T", "E", "D", " ", "P", "R", "E", "S", "S">>, 0)>> }

CascadeElemLists ==
    SuppressedElemLists \cup ConfidenceElemLists \cup ContainingElemLists \cup CreditElemLists
        \cup BylineElemLists

CascadeMetaLists ==
    { << >>, <<AuthorMeta(<<"J", "a", "n", "e", " ", "D", "o", "e">>)>>,
      <<AuthorMeta(<<"J", "a", "n", "e", " ", " ", "D", "o", "e">>)>> }

CascadeArgs ==
    { [html |-> [BaseDoc EXCEPT !.metas = m, !.body_elems = e], url |-> None,
       options |-> None] : m \in CascadeMetaLists, e \in CascadeElemLists }

InitCascade == \E a \in CascadeArgs : Start([i \in Insts |-> a], {1})

SpecCascade == InitCascade /\ [][NextMeta]_vars

-----------------------------------------------------------------------------
(* Documents for the <title> heuristic: no structured data and no meta      *)
(* tags, so the title comes from extract_title_from_document alone.         *)

TitleTexts ==
    { <<"a", " ", "b", " ", "c", " ", "|", " ", "S">>, <<"a", " ", "b", " ", "c", " ", "d", " ", "e", " ", "|", " ", "S">>, <<"S", " ", "|", " ", "a", " ", "b", " ", "c", " ", "d", " ", "e">>,
      <<"a", " ", "b", " ", "c", " ", "d", " ", "e", " ", "|", " ", "f", " ", "g", " ", "h", " ", "|", " ", "S">>, <<"a", " ", "b", " ", "c", " ", ">", " ", "d">>, <<"a", " ", "b", " ", ">", " ", "c", " ", "d">>, <<"S", " ", "/", " ", "a", " ", "b", " ", "c">>,
      <<"e", "-", "m", "a", "i", "l", " ", "x", " ", "|", " ", "S", " ", "y", " ", "z", " ", "w", " ", "v">>, <<"a", " ", "b", " ", "c", " ", "d", " ", "e", " ", "-", " ", "S">>, <<"a", " ", "b", " ", "c", " ", "d", " ", "e", "-", "S">>,
      <<"L", "e", "a", "d", ":", " ", "a", " ", "b", " ", "c">>, <<"S", "h", "o", "r", "t">>, <<"A", " ", "t", "i", "t", "l", "e", " ", "o", "f", " ", "f", "i", "v", "e", " ", "w", "o", "r", "d", "s">>, << >>,
      <<"a", " ", "b", " ", "c", " ", "d", " ", "e", " ", "endash", " ", "S">>,
      [k \in 1..51 |-> "euro"] }

TitleHeadingLists ==
    { << >>,
      <<[tag |-> "h1", text |-> <<"M", "y", " ", "H", "e", "a", "d", "i", "n", "g">>]>>,
      <<[tag |-> "h1", text |-> <<" ", "T", "h", "e", " ", "h", "e", "a", "d", "i", "n", "g", " ", "h", "a", "s", " ", "f", "i", "v", "e", " ", "w", "o", "r", "d", "s", " ">>]>>,
      <<[tag |-> "h1", text |-> <<"T", "h", "e", " ", "h", "e", "a", "d", "i", "n", "g", " ", "h", "a", "s", " ", "f", "i", "v", "e", " ", "w", "o", "r", "d", "s">>],
        [tag |-> "h1", text |-> <<"M", "y", " ", "H", "e", "a", "d", "i", "n", "g">>]>>,
      <<[tag |-> "h2", text |-> <<"T", "h", "e", " ", "h", "e", "a", "d", "i", "n", "g", " ", "h", "a", "s", " ", "f", "i", "v", "e", " ", "w", "o", "r", "d", "s">>]>> }

TitleArgs ==
    { [html |-> [BaseDoc EXCEPT !.title = Some(t), !.headings = h], url |-> None,
       options |-> None] : t \in TitleTexts, h \in TitleHeadingLists }

InitTitle == \E a \in TitleArgs : Start([i \in Insts |-> a], {1})

SpecTitle == InitTitle /\ [][NextMeta]_vars

-----------------------------------------------------------------------------
(* Documents for the record's excerpt and title: the fragments the         *)
(* selector returns, with and without a description meta tag and a title   *)
(* element.                                                                 *)

\* "This is the first real paragraph of the story."
GoodParagraph ==
    <<"T", "h", "i", "s", " ", "i", "s", " ", "t", "h", "e", " ", "f", "i", "r", "s", "t", " ",
    "r", "e", "a", "l", " ", "p", "a", "r", "a", "g", "r", "a", "p", "h", " ", "o", "f", " ",
    "t", "h", "e", " ", "s", "t", "o", "r", "y", ".">>
\* "The first real paragraph."
ExactParagraph ==
    <<"T", "h", "e", " ", "f", "i", "r", "s", "t", " ", "r", "e", "a", "l", " ", "p", "a", "r",
    "a", "g", "r", "a", "p", "h", ".">>
\* "A short paragraph, 24 ch"
ShortParagraph ==
    <<"A", " ", "s", "h", "o", "r", "t", " ", "p", "a", "r", "a", "g", "r", "a", "p", "h", ",",
    " ", "2", "4", " ", "c", "h">>
\* "A café paragraph, 24 chs"
AccentParagraph ==
    <<"A", " ", "c", "a", "f", "eacute", " ", "p", "a", "r", "a", "g", "r", "a", "p", "h", ",",
    " ", "2", "4", " ", "c", "h", "s">>
\* "[Home] [About] [Contact us]"
MenuParagraph ==
    <<"[", "H", "o", "m", "e", "]", " ", "[", "A", "b", "o", "u", "t", "]", " ", "[", "C", "o",
    "n", "t", "a", "c", "t", " ", "u", "s", "]">>
\* "See also: Something else entirely."
SeeAlsoParagraph ==
    <<"S", "e", "e", " ", "a", "l", "s", "o", ":", " ", "S", "o", "m", "e", "t", "h", "i", "n",
    "g", " ", "e", "l", "s", "e", " ", "e", "n", "t", "i", "r", "e", "l", "y", ".">>
\* "A note that stands above the story"
NoteParagraph ==
    <<"A", " ", "n", "o", "t", "e", " ", "t", "h", "a", "t", " ", "s", "t", "a", "n", "d", "s",
    " ", "a", "b", "o", "v", "e", " ", "t", "h", "e", " ", "s", "t", "o", "r", "y">>
\* "By Jane Doe, our staff reporter"
BylineParagraph ==
    <<"B", "y", " ", "J", "a", "n", "e", " ", "D", "o", "e", ",", " ", "o", "u", "r", " ", "s",
    "t", "a", "f", "f", " ", "r", "e", "p", "o", "r", "t", "e", "r">>
\* "word word word word word word word word word word word word word word word word word word word word word word word word word word word word word word word word word word word word word word word word word word word word word word word word word word word word word word word word word word word word word word"
LongText ==
    <<"w", "o", "r", "d", " ", "w", "o", "r", "d", " ", "w", "o", "r", "d", " ", "w", "o", "r",
    "d", " ", "w", "o", "r", "d", " ", "w", "o", "r", "d", " ", "w", "o", "r", "d", " ", "w",
    "o", "r", "d", " ", "w", "o", "r", "d", " ", "w", "o", "r", "d", " ", "w", "o", "r", "d",
    " ", "w", "o", "r", "d", " ", "w", "o", "r", "d", " ", "w", "o", "r", "d", " ", "w", "o",
    "r", "d", " ", "w", "o", "r", "d", " ", "w", "o", "r", "d", " ", "w", "o", "r", "d", " ",
    "w", "o", "r", "d", " ", "w", "o", "r", "d", " ", "w", "o", "r", "d", " ", "w", "o", "r",
    "d", " ", "w", "o", "r", "d", " ", "w", "o", "r", "d", " ", "w", "o", "r", "d", " ", "w",
    "o", "r", "d", " ", "w", "o", "r", "d", " ", "w", "o", "r", "d", " ", "w", "o", "r", "d",
    " ", "w", "o", "r", "d", " ", "w", "o", "r", "d", " ", "w", "o", "r", "d", " ", "w", "o",
    "r", "d", " ", "w", "o", "r", "d", " ", "w", "o", "r", "d", " ", "w", "o", "r", "d", " ",
    "w", "o", "r", "d", " ", "w", "o", "r", "d", " ", "w", "o", "r", "d", " ", "w", "o", "r",
    "d", " ", "w", "o", "r", "d", " ", "w", "o", "r", "d", " ", "w", "o", "r", "d", " ", "w",
    "o", "r", "d", " ", "w", "o", "r", "d", " ", "w", "o", "r", "d", " ", "w", "o", "r", "d",
    " ", "w", "o", "r", "d", " ", "w", "o", "r", "d", " ", "w", "o", "r", "d", " ", "w", "o",
    "r", "d", " ", "w", "o", "r", "d", " ", "w", "o", "r", "d", " ", "w", "o", "r", "d", " ",
    "w", "o", "r", "d", " ", "w", "o", "r", "d", " ", "w", "o", "r", "d", " ", "w", "o", "r",
    "d", " ", "w", "o", "r", "d", " ", "w", "o", "r", "d", " ", "w", "o", "r", "d", " ", "w",
    "o", "r", "d">>
\* "Short lead\n\nThe second paragraph of the text is long enough to be taken as the excerpt of the story."
SplitText ==
    <<"S", "h", "o", "r", "t", " ", "l", "e", "a", "d", "\n", "\n", "T", "h", "e", " ", "s",
    "e", "c", "o", "n", "d", " ", "p", "a", "r", "a", "g", "r", "a", "p", "h", " ", "o", "f",
    " ", "t", "h", "e", " ", "t", "e", "x", "t", " ", "i", "s", " ", "l", "o", "n", "g", " ",
    "e", "n", "o", "u", "g", "h", " ", "t", "o", " ", "b", "e", " ", "t", "a", "k", "e", "n",
    " ", "a", "s", " ", "t", "h", "e", " ", "e", "x", "c", "e", "r", "p", "t", " ", "o", "f",
    " ", "t", "h", "e", " ", "s", "t", "o", "r", "y", ".">>
\* "A block of text with more than forty bytes in it."
MidText ==
    <<"A", " ", "b", "l", "o", "c", "k", " ", "o", "f", " ", "t", "e", "x", "t", " ", "w", "i",
    "t", "h", " ", "m", "o", "r", "e", " ", "t", "h", "a", "n", " ", "f", "o", "r", "t", "y",
    " ", "b", "y", "t", "e", "s", " ", "i", "n", " ", "i", "t", ".">>
\* "A block of thirty bytes, no p."
SmallText ==
    <<"A", " ", "b", "l", "o", "c", "k", " ", "o", "f", " ", "t", "h", "i", "r", "t", "y", " ",
    "b", "y", "t", "e", "s", ",", " ", "n", "o", " ", "p", ".">>
\* "[Home] [About] [Contact us] [Archive] [Search]"
MenuText ==
    <<"[", "H", "o", "m", "e", "]", " ", "[", "A", "b", "o", "u", "t", "]", " ", "[", "C", "o",
    "n", "t", "a", "c", "t", " ", "u", "s", "]", " ", "[", "A", "r", "c", "h", "i", "v", "e",
    "]", " ", "[", "S", "e", "a", "r", "c", "h", "]">>

ExcerptFragments ==
    { << P(ShortParagraph), P(GoodParagraph) >>,
      << P(ExactParagraph) >>,
      << P(AccentParagraph) >>,
      << P(AccentParagraph), P(GoodParagraph) >>,
      << P(MenuParagraph), P(GoodParagraph) >>,
      << [P(NoteParagraph) EXCEPT !.role = Some(<<"N", "o", "t", "e">>)], P(GoodParagraph) >>,
      << P(SeeAlsoParagraph), P(GoodParagraph) >>,
      << [P(NoteParagraph) EXCEPT !.link_chars = 30], P(GoodParagraph) >>,
      << P(BylineParagraph), P(GoodParagraph) >>,
      << WithFault(Block("p", <<"h", "a", "t", "n", "o", "t", "e">>, NoteParagraph), "deep"),
         P(GoodParagraph) >>,
      << WithFault(Block("p", <<"a", "u", "t", "h", "o", "r", "s">>, NoteParagraph), "deep") >>,
      << Block("p", <<"h", "a", "t", "n", "o", "t", "e">>, NoteParagraph), P(GoodParagraph) >>,
      << Block("div", << >>, MidText) >>,
      << Block("div", << >>, SmallText) >>,
      << Block("div", << >>, LongText) >>,
      << Block("div", << >>, SplitText) >>,
      << Block("div", << >>, MenuText) >>,
      << Block("div", << >>, GoodParagraph), P(ShortParagraph) >> }

ExcerptMetaLists ==
    { << >>, <<NameMeta(AttrTok("", "", "description"), <<"M", "e", "t", "a", " ", "s", "u", "m">>)>> }

ExcerptOptions ==
    { None, Some([DefaultOptions EXCEPT !.char_threshold = 0]),
      Some([DefaultOptions EXCEPT !.char_threshold = 0, !.debug = TRUE,
                                  !.max_elems_to_parse = MaxElems - 1]) }

\* with and without a title element
ExcerptTitles == { None, Some(<<"T">>) }

ExcerptArgs ==
    { [html |-> [BaseDoc EXCEPT !.metas = m, !.title = t, !.rungs = <<f, f, f>>,
                                !.elems = MaxElems],
       url |-> None, options |-> o] :
        m \in ExcerptMetaLists, t \in ExcerptTitles, f \in ExcerptFragments,
        o \in ExcerptOptions }

InitExcerpt == \E a \in ExcerptArgs : Start([i \in Insts |-> a], {1})

SpecExcerpt == InitExcerpt /\ [][Next]_vars

-----------------------------------------------------------------------------
(* The quick check over documents of a few text blocks.                     *)

\* how many blocks a document of the quick check has at most
MaxBlocks == 2

\* a text of n letters
Fill(n) == [k \in 1..n |-> "x"]

\* the element with the text, directly under the body
TextBlock(tag, text) == Elem(tag, << >>, text, 0)

BlockPool ==
    { TextBlock("p", Fill(5)), TextBlock("p", Fill(141)), TextBlock("p", Fill(240)),
      TextBlock("p", Fill(540)), TextBlock("p", Fill(541)), TextBlock("pre", Fill(240)),
      TextBlock("div", Fill(541)),
      TextBlock("p", <<" ", "\n">> \o Fill(140) \o <<" ">>),
      TextBlock("p", Fill(139) \o <<"eacute">>) }

\* an article around two paragraphs
Wrapped(first, second) ==
    <<TextBlock("article", <<"\n">>), [first EXCEPT !.parent = 1], [second EXCEPT !.parent = 1]>>

BlockLists ==
    UNION { [1..n -> BlockPool] : n \in 0..MaxBlocks }
        \cup { Wrapped(a, b) : a, b \in {TextBlock("p", Fill(141)), TextBlock("p", Fill(240))} }

ReaderableOptionValues ==
    { None,
      Some([min_content_length |-> 5, min_score |-> 0]),
      Some([min_content_length |-> 140, min_score |-> 2 * ScoreScale]) }

ReaderableArgs ==
    { [html |-> [BaseDoc EXCEPT !.body_elems = b], url |-> None, options |-> o] :
        b \in BlockLists, o \in ReaderableOptionValues }

InitReaderable == \E a \in ReaderableArgs : StartAt([i \in Insts |-> a], {1}, "check")

NextReaderable == \E i \in Insts : IsProbablyReaderable(i)

SpecReaderable == InitReaderable /\ [][NextReaderable]_vars

-----------------------------------------------------------------------------
(* Properties of construction and of the run of parse.                      *)

\* the positions of a call site: before new, after new, and inside parse
PcValues ==
    {"off", "new", "failed", "created", "json_ld", "metadata", "prepped", "ladder",
     "grabbed", "light", "post", "deep", "done"}

Returned(i) == pc[i] = "done" /\ result[i].returned
Succeeded(i) == Returned(i) /\ IsSome(result[i].article)
OptionsOf(i) == IF IsSome(args[i].options) THEN Unwrap(args[i].options) ELSE DefaultOptions

\* C1: for every successful extraction, the length of the record is the
\* number of characters of its text_content, multi-byte characters included
C1_LengthIsCharacterCount ==
    \A i \in Insts :
        Succeeded(i) =>
            Unwrap(result[i].article).length
                = CharCount(Unwrap(Unwrap(result[i].article).text_content))

\* C2: new returns Err(InvalidUrl(u)) exactly when the url is Some(u) and u is
\* not a valid URL; otherwise it returns Ok whatever the html and the options
\* are, and it has run no extraction: the metadata is the empty default
C2_NewValidatesOnlyTheUrl ==
    \A i \in Insts :
        pc[i] \notin {"off", "new"} =>
            /\ created[i].status \in {"Ok", "Err"}
            /\ created[i].status = "Err"
                <=> (IsSome(args[i].url) /\ Unwrap(args[i].url) \in InvalidUrls)
            /\ created[i].status = "Err" =>
                /\ created[i].e = "InvalidUrl"
                /\ created[i].url = Unwrap(args[i].url)
                /\ IsNone(self[i])
                /\ pc[i] = "failed"
            /\ created[i].status = "Ok" => IsSome(self[i])
            /\ pc[i] = "created" =>
                /\ Unwrap(self[i]).metadata = MetadataDefault
                /\ Unwrap(self[i]).html = args[i].html
                /\ json_ld[i] = MetadataDefault
                /\ grab[i] = Pending /\ rung[i] = << >> /\ stage[i] = NoLocals
                /\ result[i] = NoArticle

\* C2: new has rejected a URL that is not valid
C2_Witness ==
    /\ pc[1] = "failed" /\ created[1].status = "Err"
    /\ Unwrap(args[1].url) \in InvalidUrls

\* the documents with no text, and with one-word paragraphs only
WordlessRungs == { <<Empty, Empty, Empty>>, <<Empty, Word, TwoWords>> }

\* C3: parse never surfaces an error: when grab_article reports no content
\* or fails (the element ceiling), parse returns None; an empty document and a
\* document of one-word paragraphs yield None under the default options
C3_ParseNeverSurfacesAnError ==
    \A i \in Insts :
        /\ pc[i] \in PcValues
        /\ pc[i] = "done" => result[i].returned
        /\ (pc[i] = "done" /\ grab[i].status = "Err") => IsNone(result[i].article)
        /\ (pc[i] = "done" /\ grab[i].status = "Ok" /\ IsNone(grab[i].v))
                => IsNone(result[i].article)
        /\ (pc[i] = "done" /\ IsNone(args[i].options)
                /\ args[i].html.rungs \in WordlessRungs)
                => IsNone(result[i].article)
        /\ (ExceedsCeiling(args[i].html, OptionsOf(i)) /\ pc[i] = "done")
                => (grab[i].status = "Err" /\ IsNone(result[i].article))

\* C3: parse has returned None after grab_article failed on the element ceiling
C3_Witness ==
    /\ pc[1] = "done" /\ grab[1].status = "Err" /\ grab[1].e = "MaxElementsExceeded"
    /\ result[1] = [returned |-> TRUE, article |-> None]

\* C4: no partial record: a returned record has content, raw_content and
\* text_content, also when the light or the deep cleaning pass fails and parse
\* goes on with the HTML of the stage before
C4_NoPartialRecord ==
    \A i \in Insts :
        IsSome(result[i].article) =>
            LET a == Unwrap(result[i].article)
            IN  /\ IsSome(a.content) /\ IsSome(a.raw_content) /\ IsSome(a.text_content)
                /\ a.raw_content = stage[i].content_html
                /\ a.content = stage[i].cleaned_html
                /\ FaultsOn(Unwrap(stage[i].content_html), "light")
                        => stage[i].cleaned_wrapper_html = stage[i].content_html
                /\ FaultsOn(Unwrap(stage[i].prepped_html), "deep")
                        => a.content = stage[i].prepped_html

\* C4: a record returned after both cleaning passes failed
C4_Witness ==
    /\ Succeeded(1)
    /\ FaultsOn(Unwrap(stage[1].content_html), "light")
    /\ FaultsOn(Unwrap(stage[1].prepped_html), "deep")
    /\ Unwrap(result[1].article).content = stage[1].content_html

\* the state of the ladder of call site i agrees with the fixed order
LadderInOrder(i) ==
    LET n == Len(rung[i])
        threshold == Unwrap(self[i]).options.char_threshold
        doc == Unwrap(stage[i].preprocessed_doc)
        Fails(k) == TextLength(doc.rungs[k]) < threshold
    IN  /\ n <= Len(Ladder)
        /\ rung[i] = SubSeq(Ladder, 1, n)
        /\ pc[i] = "ladder" => (n < Len(Ladder) /\ \A k \in 1..n : Fails(k))
        /\ (grab[i].status = "Ok" /\ IsSome(grab[i].v)) =>
                /\ n >= 1
                /\ Unwrap(grab[i].v) = doc.rungs[n]
                /\ ~Fails(n)
                /\ \A k \in 1..(n - 1) : Fails(k)
        /\ (grab[i].status = "Ok" /\ IsNone(grab[i].v)) =>
                /\ rung[i] = Ladder
                /\ \A k \in 1..Len(Ladder) : Fails(k)

\* a step of call site i inside the ladder tries exactly one more rung
LadderStep(i) ==
    (pc[i] = "ladder" /\ <<pc[i], rung[i], grab[i]>> # <<pc[i], rung[i], grab[i]>>')
        => /\ Len(rung[i]') = Len(rung[i]) + 1
           /\ pc[i]' \in {"ladder", "grabbed"}

\* C7: the retry ladder terminates (every attempt uses up one of the three
\* rungs and an attempt is possible as long as the ladder is not left), tries
\* strict, relaxed and body in that order with no rung repeated or skipped,
\* stops at the first rung whose text meets the threshold and returns its
\* root, and reports exhaustion only after every rung has failed
C7_RetryLadder ==
    /\ [](\A i \in Insts : LadderInOrder(i))
    /\ [](\A i \in Insts : pc[i] = "ladder" => ENABLED AttemptRung(i))
    /\ [][\A i \in Insts : LadderStep(i)]_vars

\* C7: the ladder is exhausted after its three rungs
C7_Witness ==
    /\ grab[1].status = "Ok" /\ IsNone(grab[1].v)
    /\ rung[1] = <<"strict", "relaxed", "body">>

\* C8: a document with a JSON-LD block that does not parse yields None
C8_MalformedJsonLdYieldsNone ==
    \A i \in Insts :
        (/\ Returned(i)
         /\ ~OptionsOf(i).disable_json_ld
         /\ \E k \in DOMAIN args[i].html.scripts : ~JsonParses(args[i].html.scripts[k]))
            => IsNone(result[i].article)

-----------------------------------------------------------------------------
(* Properties of a batch.                                                   *)

Finished(i) == pc[i] \in {"done", "failed"}

SameButThreshold(a, b) ==
    /\ a.html = b.html /\ a.url = b.url
    /\ IsSome(a.options) /\ IsSome(b.options)
    /\ [Unwrap(a.options) EXCEPT !.char_threshold = 0]
            = [Unwrap(b.options) EXCEPT !.char_threshold = 0]

\* C6: with the document and the other options fixed, extraction that
\* succeeds with threshold T succeeds with every threshold T' <= T
C6_RetryMonotonicity ==
    \A i, j \in Insts :
        (/\ pc[i] = "done" /\ pc[j] = "done"
         /\ SameButThreshold(args[i], args[j])
         /\ OptionsOf(i).char_threshold <= OptionsOf(j).char_threshold
         /\ IsSome(result[j].article))
            => IsSome(result[i].article)

\* C6: the same document has succeeded under two different thresholds, on
\* different rungs
C6_Witness ==
    /\ Succeeded(1) /\ Succeeded(2)
    /\ SameButThreshold(args[1], args[2])
    /\ OptionsOf(1).char_threshold < OptionsOf(2).char_threshold
    /\ rung[1] # rung[2]

-----------------------------------------------------------------------------
(* Properties of the metadata resolver.                                     *)

\* the keys under which a meta element enters the table
KeysOf(meta) ==
    IF IsNone(meta.content) \/ Unwrap(meta.content) = << >> THEN {}
    ELSE LET props == IF IsSome(meta.property) THEN Unwrap(meta.property) ELSE << >>
             hits == {n \in DOMAIN props : PropertyMatches(props[n])}
         IN  IF hits # {} THEN {PropertyKey(props[n]) : n \in hits}
             ELSE IF IsSome(meta.name) /\ NameMatches(Unwrap(meta.name))
                  THEN {NameKey(Unwrap(meta.name))}
                  ELSE {}

\* the positions of the meta elements that enter the table under key k
Writers(document, k) == {n \in DOMAIN document.metas : k \in KeysOf(document.metas[n])}

AllKeys(document) == UNION {KeysOf(document.metas[n]) : n \in DOMAIN document.metas}

Last(S) == CHOOSE n \in S : \A m \in S : m <= n
First(S) == CHOOSE n \in S : \A m \in S : n <= m

\* the table of call site i holds, for every key, the content of the meta
\* element Pick chooses among the elements that normalize to the key
TableKeeps(i, Pick(_)) ==
    LET document == args[i].html
    IN  /\ DOMAIN meta_values[i] = AllKeys(document)
        /\ \A k \in AllKeys(document) :
                meta_values[i][k]
                    = Trim(Unwrap(document.metas[Pick(Writers(document, k))].content))

\* C9 as amended: the meta-tag table is last-match-wins per key: when two or
\* more meta elements (or property tokens) normalize to the same key, the
\* table keeps the content of the last one in document order
C9_LastMatchWins == \A i \in Insts : pc[i] = "metadata" => TableKeeps(i, Last)

\* C9 as claimed: the meta-tag table is first-match-wins per key: later meta
\* elements that normalize to a key do not replace the content of the first
C9_FirstMatchWins == \A i \in Insts : pc[i] = "metadata" => TableKeeps(i, First)

\* C9: a table built from two meta elements that normalize to the same key
\* and differ in content
C9_Witness ==
    /\ pc[1] = "metadata"
    /\ \E k \in DOMAIN meta_values[1] :
            /\ Cardinality(Writers(args[1].html, k)) = 2
            /\ Trim(Unwrap(args[1].html.metas[1].content))
                    # Trim(Unwrap(args[1].html.metas[2].content))
            /\ meta_values[1][k] = Trim(Unwrap(args[1].html.metas[2].content))

\* the values the table of call site i holds under the keys of a field
TableValues(i, keys) ==
    {meta_values[i][k] : k \in Range(keys) \cap DOMAIN meta_values[i]}

\* field f of the metadata of call site i comes from the structured data when
\* they supply it, else from the meta tags when they supply it, else from
\* the DOM-derived value
ByPriority(i, got, ld_value, keys, Post(_), dom) ==
    /\ IsSome(ld_value) => got = Post(ld_value)
    /\ (IsNone(ld_value) /\ TableValues(i, keys) # {})
            => \E v \in TableValues(i, keys) : got = Post(Some(v))
    /\ (IsNone(ld_value) /\ TableValues(i, keys) = {}) => got = dom

\* the title the <title> heuristic derives, the empty string when none
DomTitle(document) ==
    IF IsSome(extract_title_from_document(document))
    THEN UnescapeOpt(extract_title_from_document(document))
    ELSE Some(<< >>)

\* C10: for title, excerpt, site name and published time the value of the
\* structured data wins over every meta-tag value, a meta-tag value wins over
\* the DOM-derived title, and a lower source is used only when every higher
\* source is absent for the field
C10_StructuredDataThenMetaThenDom ==
    \A i \in Insts :
        pc[i] = "metadata" =>
            LET md == Unwrap(self[i]).metadata
                ld == json_ld[i]
            IN  /\ ByPriority(i, md.title, ld.title, TitleKeys, UnescapeOpt,
                              DomTitle(args[i].html))
                /\ ByPriority(i, md.excerpt, ld.excerpt, ExcerptKeys, CleanExcerpt, None)
                /\ ByPriority(i, md.site_name, ld.site_name, SiteNameKeys, UnescapeOpt, None)
                /\ ByPriority(i, md.published_time, ld.published_time, PublishedKeys,
                              UnescapeOpt, None)

\* C10: structured data, a meta tag and the title element each supply a
\* different title, and the metadata carries the one of the structured data
C10_Witness ==
    /\ pc[1] = "metadata"
    /\ json_ld[1].title = Some(<<"N">>)
    /\ "og:title" \in DOMAIN meta_values[1] /\ meta_values[1]["og:title"] = <<"A">>
    /\ args[1].html.title = Some(<<"T">>)
    /\ Unwrap(self[1]).metadata.title = Some(<<"N">>)

-----------------------------------------------------------------------------
(* Properties of the byline.                                                *)

\* the document the call site was given
DocOf(i) == args[i].html

\* the byline of the structured data or, failing that, of the meta tags,
\* before the DOM candidate is looked at
ExistingByline(i) ==
    IF IsSome(json_ld[i].byline) THEN json_ld[i].byline
    ELSE IF \E n \in DOMAIN BylineKeys : BylineKeys[n] \in DOMAIN meta_values[i]
    THEN LET n == CHOOSE n \in DOMAIN BylineKeys :
                    /\ BylineKeys[n] \in DOMAIN meta_values[i]
                    /\ \A m \in 1..(n - 1) : BylineKeys[m] \notin DOMAIN meta_values[i]
         IN  Some(meta_values[i][BylineKeys[n]])
    ELSE None

\* the existing byline is a dateline or an organisation credit and the DOM
\* candidate is not
LowQualityExisting(i) ==
    LET dom == extract_byline_from_document(DocOf(i))
        existing == ExistingByline(i)
    IN  /\ IsSome(existing) /\ IsSome(dom)
        /\ \/ looks_like_dateline(Trim(Unwrap(existing)))
                 /\ ~looks_like_dateline(Trim(Unwrap(dom).text))
           \/ looks_like_org_credit(Trim(Unwrap(existing)))
                 /\ ~looks_like_org_credit(Trim(Unwrap(dom).text))

\* C11 as stated: whenever the meta or structured byline looks like a
\* dateline or an organisation credit and the DOM byline candidate does not,
\* the resolved byline is the DOM byline.
C11_DomBylineReplacesLowQuality ==
    \A i \in Insts :
        (pc[i] = "metadata" /\ LowQualityExisting(i)) =>
            Unwrap(self[i]).metadata.byline =
                Some(Unwrap(extract_byline_from_document(DocOf(i))).text)

\* C11: when the meta or structured byline looks like a dateline or an
\* organisation credit, the DOM byline candidate does not, and the two are
\* not the same text up to ASCII case, the resolved byline is the DOM byline
\* with its character references replaced, or absent when that byline is
\* redundant with the resolved site name.
C11_DomBylineReplacesLowQualityUnlessRedundant ==
    \A i \in Insts :
        (pc[i] = "metadata" /\ LowQualityExisting(i)) =>
            LET md == Unwrap(self[i]).metadata
                existing == Unwrap(ExistingByline(i))
                dom == Unwrap(extract_byline_from_document(DocOf(i))).text
                shown == unescape_html_entities(dom)
            IN  IF eq_ignore_ascii_case(Trim(dom), Trim(existing))
                THEN TRUE
                ELSE IF IsSome(md.site_name)
                        /\ is_byline_redundant_with_site_name(shown, Unwrap(md.site_name))
                THEN md.byline = None
                ELSE md.byline = Some(shown)

\* a dateline in the author meta tag gave way to the tagged byline
C11_Witness ==
    \E i \in Insts :
        /\ pc[i] = "metadata"
        /\ ExistingByline(i) = Some(<<"C", "A", "I", "R", "O">>)
        /\ LowQualityExisting(i)
        /\ Unwrap(self[i]).metadata.byline = Some(<<"B", "y", " ", "E", "r", "i", "n", " ", "K", "a", "y">>)

\* the byline the sources yield for the call site, before the comparison with
\* the site name: the existing byline or the DOM candidate
HasBylineSource(i) ==
    IsSome(ExistingByline(i)) \/ IsSome(extract_byline_from_document(DocOf(i)))

\* C12: the metadata record get_article_metadata returns never carries a
\* byline that is textually redundant with its resolved site name.
C12_NoBylineRedundantWithSiteName ==
    \A i \in Insts :
        IsSome(self[i]) =>
            LET md == Unwrap(self[i]).metadata
            IN  (IsSome(md.byline) /\ IsSome(md.site_name)) =>
                    ~is_byline_redundant_with_site_name(Unwrap(md.byline),
                                                        Unwrap(md.site_name))

\* the DOM byline "Joe Wee" was dropped because the site name holds it
C12_Witness ==
    \E i \in Insts :
        /\ pc[i] = "metadata"
        /\ ExistingByline(i) = None
        /\ extract_byline_from_document(DocOf(i)) =
              Some(DomBylineCandidate(<<"J", "o", "e", " ", "W", "e", "e">>, "High"))
        /\ Unwrap(self[i]).metadata.site_name = Some(<<"S", " ", "|", " ", "B", "Y", ":", " ", "J", "o", "e", " ", "W", "e", "e">>)
        /\ Unwrap(self[i]).metadata.byline = None

-----------------------------------------------------------------------------
(* Properties of the structured data.                                       *)

\* the scripts of the document that hold well-formed JSON
ParsedScripts(i) == SelectSeq(DocOf(i).scripts, LAMBDA script : script.kind # "bad")

\* get_json_ld has run for the call site
JsonLdDone(i) ==
    /\ pc[i] \notin {"off", "new", "failed", "created"}
    /\ ~Unwrap(self[i]).options.disable_json_ld

\* the first well-formed block of the document is a schema.org Article with a
\* headline, an author name and a description, and no name
HeadlineAuthorDescription(i) ==
    /\ ParsedScripts(i) # << >>
    /\ LET block == ParsedScripts(i)[1]
       IN  /\ block.kind = "obj"
           /\ block.o.ctx \in {StrCtx("http://schema.org"), StrCtx("https://schema.org")}
           /\ block.o.type = StrType("Article")
           /\ IsNone(block.o.name)
           /\ IsSome(block.o.headline)
           /\ block.o.author.kind = "obj" /\ IsSome(block.o.author.name)
           /\ IsSome(block.o.description)

-----------------------------------------------------------------------------
(* Properties of the quick check.                                           *)

\* the elements of the document given to the quick check
BlocksOf(i) == args[i].html.body_elems

\* the thresholds the quick check runs with
ThresholdsOf(i) ==
    IF args[i].options = None
    THEN [min_content_length |-> 140, min_score |-> 20 * ScoreScale]
    ELSE Unwrap(args[i].options)

\* the plain text of an element, trimmed
PlainText(i, k) == Trim(ElementText(BlocksOf(i), k))

\* the paragraphs with more than 140 characters of plain text
LongParagraphs(i) ==
    {k \in DOMAIN BlocksOf(i) : BlocksOf(i)[k].tag = "p" /\ CharCount(PlainText(i, k)) > 140}

\* C14: under the default thresholds a document with two paragraphs, each of
\* more than 140 characters of plain text, is found readerable.
C14_TwoLongParagraphsAreReaderable ==
    \A i \in Insts :
        (/\ pc[i] = "checked"
         /\ args[i].options = None
         /\ Cardinality(LongParagraphs(i)) = 2)
            => readerable[i] = Some(TRUE)

\* the p, pre and article elements of the document, in document order
Scanned(i) ==
    SelectSeq([k \in DOMAIN BlocksOf(i) |-> k],
              LAMBDA k : BlocksOf(i)[k].tag \in {"p", "pre", "article"})

\* what the n-th scanned element adds to the score
Contribution(i, n) ==
    LET len == ByteLen(PlainText(i, Scanned(i)[n]))
    IN  IF len >= ThresholdsOf(i).min_content_length
        THEN Sqrt(len - ThresholdsOf(i).min_content_length)
        ELSE 0

\* the score after the first n scanned elements
RECURSIVE RunningScore(_, _)
RunningScore(i, n) == IF n = 0 THEN 0 ELSE RunningScore(i, n - 1) + Contribution(i, n)

\* some scanned element is long enough and leaves the score above min_score
ScoreExceeded(i) ==
    \E n \in DOMAIN Scanned(i) :
        /\ ByteLen(PlainText(i, Scanned(i)[n])) >= ThresholdsOf(i).min_content_length
        /\ RunningScore(i, n) > ThresholdsOf(i).min_score

-----------------------------------------------------------------------------
(* Properties of the metadata of the returned record.                       *)

\* what the metadata resolver computes from the document as it was given
ResolvedFromOriginal(i) ==
    LET document == parse_document(args[i].html)
    IN  get_article_metadata(document,
            IF OptionsOf(i).disable_json_ld THEN MetadataDefault
            ELSE get_json_ld(document, REGEXPS))

\* what it would compute from the preprocessed document
ResolvedFromPreprocessed(i) ==
    LET document == parse_document(prep_document(args[i].html))
    IN  get_article_metadata(document,
            IF OptionsOf(i).disable_json_ld THEN MetadataDefault
            ELSE get_json_ld(document, REGEXPS))

\* C16: preprocessing, candidate selection and cleaning never change the
\* metadata: the title, byline, site name, language and published time of the
\* returned record are what the metadata resolver computes from the original
\* document, and the document held by the instance stays the one parsed from
\* the input.
C16_MetadataFromOriginalDocument ==
    \A i \in Insts :
        /\ IsSome(self[i]) =>
              /\ Unwrap(self[i]).document = parse_document(args[i].html)
              /\ Unwrap(self[i]).html = args[i].html
        /\ Succeeded(i) =>
              LET article == Unwrap(result[i].article)
                  md == ResolvedFromOriginal(i)
              IN  /\ article.title = md.title
                  /\ article.byline = md.byline
                  /\ article.site_name = md.site_name
                  /\ article.lang = md.lang
                  /\ article.published_time = md.published_time

\* a record was returned whose title comes from a script element that the
\* preprocessor removes
C16_Witness ==
    \E i \in Insts :
        /\ Succeeded(i)
        /\ Unwrap(stage[i].preprocessed_doc) # Unwrap(self[i]).document
        /\ Unwrap(result[i].article).title = Some(<<"L", "D">>)
        /\ ResolvedFromPreprocessed(i).title # Some(<<"L", "D">>)

-----------------------------------------------------------------------------
(* Properties of disable_json_ld.                                           *)

\* call site j is given the document of call site i without its JSON-LD
\* blocks, and otherwise the same arguments
StrippedTwin(i, j) ==
    /\ args[j].html = StripJsonLd(args[i].html)
    /\ args[j].url = args[i].url
    /\ [OptionsOf(j) EXCEPT !.disable_json_ld = TRUE]
          = [OptionsOf(i) EXCEPT !.disable_json_ld = TRUE]

\* C17: with disable_json_ld set, parse returns what it returns for the same
\* document stripped of its JSON-LD blocks: no JSON-LD value reaches the
\* metadata, and the other fields and the extracted content are the same.
C17_DisabledJsonLdIsAbsentJsonLd ==
    \A i, j \in Insts :
        (OptionsOf(i).disable_json_ld /\ StrippedTwin(i, j)) =>
            /\ (pc[i] \notin {"off", "new", "failed", "created"}) =>
                    json_ld[i] = MetadataDefault
            /\ (Returned(i) /\ Returned(j)) => result[i] = result[j]

\* both calls returned the same record, although the structured data of the
\* first document has a title of its own
C17_Witness ==
    /\ OptionsOf(1).disable_json_ld /\ StrippedTwin(1, 2)
    /\ args[1].html.scripts # << >>
    /\ IsSome(get_json_ld(args[1].html, REGEXPS).title)
    /\ Succeeded(1) /\ Succeeded(2)
    /\ result[1] = result[2]
    /\ Unwrap(result[1].article).title # get_json_ld(args[1].html, REGEXPS).title

-----------------------------------------------------------------------------
(* Properties of get_json_ld: the title, and the context and type checks.   *)

\* one of the four spellings of the schema.org address
IsSchemaOrg(s) ==
    \E scheme \in {"http", "https"}, slash \in {"", "/"} :
        s = scheme \o "://schema.org" \o slash

\* (a): the context is such a string, or an object with such a @vocab
ContextCheck(o) == o.ctx.kind \in {"str", "obj"} /\ IsSchemaOrg(o.ctx.v)

\* the article-typed entries of the @graph of the object, in order
GraphArticles(o) ==
    IF IsNone(o.graph) THEN << >>
    ELSE SelectSeq(Unwrap(o.graph),
                   LAMBDA e : e.type.kind = "str" /\ e.type.v \in ArticleTypes)

\* the object the type is taken from, and the fields with it
TypedObject(o) ==
    IF o.type.kind = "absent" /\ GraphArticles(o) # << >> THEN GraphArticles(o)[1] ELSE o

\* (b): the type is a string of the article type list
TypeCheck(o) == TypedObject(o).type.kind = "str" /\ TypedObject(o).type.v \in ArticleTypes

\* the objects a script element offers: the object itself, or the entries
\* of the array
Offered(script) ==
    CASE script.kind = "obj" -> <<script.o>>
      [] script.kind = "arr" ->
            SelectSeq(script.items, LAMBDA e : e.type.kind = "str" /\ e.type.v \in ArticleTypes)
      [] OTHER -> << >>

\* the block passes both checks
PassesChecks(script) ==
    Offered(script) # << >> /\ ContextCheck(Offered(script)[1]) /\ TypeCheck(Offered(script)[1])

\* the object whose members a passing block contributes
Contributing(script) == TypedObject(Offered(script)[1])

SameTrimmed(a, b) == IsSome(a) /\ IsSome(b) /\ Trim(Unwrap(a)) = Trim(Unwrap(b))

\* C18: the title a block supplies: the headline when name equals the
\* publisher's name after trimming and a headline exists; name when it
\* differs from the publisher's name or there is no publisher name, headline
\* or not; the headline when name is absent; none when name equals the
\* publisher's name and there is no headline.
C18_JsonLdTitleSelection ==
    \A i \in Insts :
        (JsonLdDone(i) /\ Len(DocOf(i).scripts) = 1 /\ PassesChecks(DocOf(i).scripts[1])) =>
            LET o == Contributing(DocOf(i).scripts[1])
                title == json_ld[i].title
            IN  /\ (SameTrimmed(o.name, o.publisher) /\ IsSome(o.headline)) =>
                        title = Some(Trim(Unwrap(o.headline)))
                /\ (IsSome(o.name) /\ ~SameTrimmed(o.name, o.publisher)) =>
                        title = Some(Trim(Unwrap(o.name)))
                /\ (IsNone(o.name) /\ IsSome(o.headline)) =>
                        title = Some(Trim(Unwrap(o.headline)))
                /\ (SameTrimmed(o.name, o.publisher) /\ IsNone(o.headline)) =>
                        title = None

\* a block whose name is its publisher's name up to blanks gave its headline
C18_Witness ==
    /\ JsonLdDone(1) /\ Len(DocOf(1).scripts) = 1 /\ PassesChecks(DocOf(1).scripts[1])
    /\ Contributing(DocOf(1).scripts[1]).name = Some(<<" ", "P", " ">>)
    /\ Contributing(DocOf(1).scripts[1]).publisher = Some(<<"P">>)
    /\ json_ld[1].title = Some(<<"H">>)

\* the script elements that pass both checks, in document order
PassingScripts(document) == SelectSeq(document.scripts, PassesChecks)

\* C19: a block contributes to the record only if its context and its type
\* pass the checks: the record is the one the passing blocks alone give, and
\* it is the default record when no block passes.
C19_OnlyCheckedBlocksContribute ==
    \A i \in Insts :
        JsonLdDone(i) =>
            /\ json_ld[i] = get_json_ld([DocOf(i) EXCEPT !.scripts = PassingScripts(DocOf(i))],
                                        REGEXPS)
            /\ (PassingScripts(DocOf(i)) = << >>) => json_ld[i] = MetadataDefault

\* a block with a name and an article type, but a context that is not the
\* schema.org address, left the record as the block before it made it
C19_Witness ==
    /\ JsonLdDone(1) /\ Len(DocOf(1).scripts) = 2
    /\ ~ContextCheck(DocOf(1).scripts[2].o) /\ TypeCheck(DocOf(1).scripts[2].o)
    /\ DocOf(1).scripts[2].kind = "obj"
    /\ DocOf(1).scripts[2].o.name = Some(<<"N">>)
    /\ json_ld[1] = get_json_ld([DocOf(1) EXCEPT !.scripts = <<DocOf(1).scripts[1]>>], REGEXPS)
    /\ json_ld[1].title = Some(<<"L", "D">>)

-----------------------------------------------------------------------------
(* Properties of the DOM byline cascade.                                    *)

\* what the author-relationship rung makes of one element: "skip",
\* "candidate" or "stop" (an organisation credit), and the candidate
AuthorVerdict(elems, k, attr) ==
    LET text == Trim(collect_byline_candidate_text(elems, k))
        outcome == clean_byline_text_with_reason(text)
        marked == HasWordIgnoreCase(IF attr = "rel" THEN elems[k].rel ELSE elems[k].itemprop,
                                    <<"a", "u", "t", "h", "o", "r">>)
    IN  IF is_ignorable_byline_context(elems, k) \/ is_noise_byline_context(elems, k)
        THEN [kind |-> "skip", candidate |-> None]
        ELSE IF IsSome(parent_byline_text(elems, k))
        THEN [kind |-> "candidate",
              candidate |-> Some(DomBylineCandidate(Unwrap(parent_byline_text(elems, k)), "High"))]
        ELSE IF text = << >> \/ ~(marked \/ is_valid_byline(elems, k, MatchString(elems, k)))
                \/ outcome.kind = "Dropped"
        THEN [kind |-> "skip", candidate |-> None]
        ELSE IF outcome.kind = "DroppedOrgCredit" THEN [kind |-> "stop", candidate |-> None]
        ELSE [kind |-> "candidate",
              candidate |-> Some(DomBylineCandidate(outcome.text, "High"))]

\* what a rung below makes of one element: "skip", "priority" (all-caps raw
\* text or cleaned text that reads as a byline), "fallback" (accepted
\* otherwise) or "stop" (an organisation credit where it ends the cascade)
LowerVerdict(elems, k, rung_name) ==
    LET text == Trim(collect_byline_candidate_text(elems, k))
        outcome == clean_byline_text_with_reason(text)
        passed == /\ ~RungSkips(elems, k, rung_name)
                  /\ text # << >> /\ ByteLen(text) <= RungMaxLen(rung_name)
                  /\ RungAccepts(elems, k, rung_name, text)
        candidate == Some(DomBylineCandidate(outcome.text, RungConfidence(elems, k, rung_name)))
    IN  IF ~passed \/ outcome.kind = "Dropped" THEN [kind |-> "skip", candidate |-> None]
        ELSE IF outcome.kind = "DroppedOrgCredit"
        THEN [kind |-> IF rung_name \in {"pattern", "generic"} THEN "stop" ELSE "skip",
              candidate |-> None]
        ELSE IF looks_like_caps_author(text) \/ looks_like_byline(outcome.text)
        THEN [kind |-> "priority", candidate |-> candidate]
        ELSE [kind |-> "fallback", candidate |-> candidate]

\* the verdicts of the author-relationship rung in the order of its visits:
\* the links, then the itemprop elements
AuthorVerdicts(elems) ==
    [j \in 1..Len(AuthorNodes(elems, "rel")) |->
        AuthorVerdict(elems, AuthorNodes(elems, "rel")[j], "rel")]
    \o [j \in 1..Len(AuthorNodes(elems, "itemprop")) |->
        AuthorVerdict(elems, AuthorNodes(elems, "itemprop")[j], "itemprop")]

\* the verdicts of one of the rungs below, in the order of its visits
VerdictsOf(elems, rung_name) ==
    [j \in 1..Len(RungNodes(elems, rung_name)) |->
        LowerVerdict(elems, RungNodes(elems, rung_name)[j], rung_name)]

\* the verdicts of rungs 3 to 5 in the order of the visits
LowerVerdicts(elems) ==
    VerdictsOf(elems, "pattern") \o VerdictsOf(elems, "class_id")
        \o VerdictsOf(elems, "address") \o VerdictsOf(elems, "generic")

\* the candidates each of the five rungs accepts
AcceptedAt(document, r) ==
    LET elems == document.body_elems
        Kept(verdicts) == { verdicts[j].candidate :
                              j \in { n \in DOMAIN verdicts : verdicts[n].kind # "skip"
                                                              /\ verdicts[n].kind # "stop" } }
    IN  CASE r = 1 ->
                IF IsSome(extract_standfirst_caps_byline(document))
                THEN { Some(DomBylineCandidate(Unwrap(extract_standfirst_caps_byline(document)),
                                               "High")) }
                ELSE {}
          [] r = 2 -> Kept(AuthorVerdicts(elems))
          [] r = 3 -> Kept(VerdictsOf(elems, "pattern") \o VerdictsOf(elems, "class_id"))
          [] r = 4 -> Kept(VerdictsOf(elems, "address"))
          [] OTHER -> Kept(VerdictsOf(elems, "generic"))

\* the metadata of call site i has been resolved
BylineResolved(i) == pc[i] = "metadata"

-----------------------------------------------------------------------------
(* Properties of the suppression filters of the cascade.                    *)

\* the element n steps up from k, 0 above the root
RECURSIVE Up(_, _, _)
Up(elems, k, n) ==
    IF n = 0 \/ k = 0 THEN k ELSE Up(elems, elems[k].parent, n - 1)

\* the class or the id of the element contains one of the keywords
CarriesKeyword(elem, keywords) ==
    \E keyword \in keywords :
        Contains(to_lowercase(elem.class), keyword) \/ Contains(to_lowercase(elem.id), keyword)

\* the element or one of its nearest 16 ancestors carries an ignorable or a
\* noise keyword
InSuppressedBlock(elems, k) ==
    \E d \in 0..16 :
        /\ Up(elems, k, d) # 0
        /\ CarriesKeyword(elems[Up(elems, k, d)], IGNORABLE_KEYWORDS \cup NOISE_KEYWORDS)

\* the element names itself a byline
NamesItselfByline(elem) == CarriesKeyword(elem, {<<"b", "y", "l", "i", "n", "e">>, <<"a", "u", "t", "h", "o", "r">>, <<"w", "r", "i", "t", "e", "r">>, <<"c", "r", "e", "d", "i", "t">>})

\* the elements from which a rung accepts a candidate; the rungs are
\* "standfirst", "rel", "itemprop" and the four below
AcceptedFrom(elems, rung_name) ==
    CASE rung_name = "standfirst" ->
            { k \in DOMAIN elems : Contains(elems[k].class, <<"b", "y", "l", "i", "n", "e">>)
                                   /\ IsSome(StandfirstLoop(elems, <<k>>)) }
      [] rung_name \in {"rel", "itemprop"} ->
            { k \in DOMAIN elems :
                /\ \E j \in DOMAIN AuthorNodes(elems, rung_name) :
                        AuthorNodes(elems, rung_name)[j] = k
                /\ AuthorVerdict(elems, k, rung_name).kind = "candidate" }
      [] OTHER ->
            { k \in DOMAIN elems :
                /\ \E j \in DOMAIN RungNodes(elems, rung_name) :
                        RungNodes(elems, rung_name)[j] = k
                /\ LowerVerdict(elems, k, rung_name).kind \in {"priority", "fallback"} }

AllRungs == {"standfirst", "rel", "itemprop", "pattern", "class_id", "address", "generic"}

-----------------------------------------------------------------------------
(* Properties of should_prefer_dom_byline.                                  *)

\* lower-cased and with runs of whitespace collapsed
Normalised(s) == collapse(to_lowercase(Trim(s)))

\* the case of the all-caps override: the existing byline is no
\* organisation credit, no dateline and not in capitals; the candidate is
\* another text, in capitals, that does not contain it
CapsOverrideCase(existing, dom) ==
    /\ ~looks_like_org_credit(existing) /\ ~looks_like_dateline(existing)
    /\ ~looks_like_caps_author(existing)
    /\ dom # existing /\ looks_like_caps_author(dom)
    /\ ~Contains(Normalised(dom), Normalised(existing))

\* C22: in the case of the all-caps override the DOM candidate is preferred
\* when its confidence is High and not when it is Medium or Low.
C22_CapsOverrideNeedsHighConfidence ==
    \A i \in Insts :
        (/\ BylineResolved(i)
         /\ IsSome(ExistingByline(i))
         /\ IsSome(extract_byline_from_document(DocOf(i)))
         /\ CapsOverrideCase(Unwrap(ExistingByline(i)),
                             Unwrap(extract_byline_from_document(DocOf(i))).text)) =>
            LET existing == Unwrap(ExistingByline(i))
                dom == Unwrap(extract_byline_from_document(DocOf(i)))
            IN  /\ \A confidence \in {"High", "Medium", "Low"} :
                        should_prefer_dom_byline(existing, dom.text, confidence)
                            <=> confidence = "High"
                /\ Unwrap(self[i]).metadata.byline
                        = IF dom.confidence = "High" THEN Some(dom.text)
                          ELSE CleanByline(ExistingByline(i))

\* the capitals of an element whose candidate is Medium did not replace the
\* byline of the meta tag
C22_Witness ==
    \E i \in Insts :
        /\ BylineResolved(i)
        /\ ExistingByline(i) = Some(<<"J", "a", "n", "e", " ", "D", "o", "e">>)
        /\ extract_byline_from_document(DocOf(i)) = Some(DomBylineCandidate(<<"J", "O", "E", " ", "H", "I", "L", "L">>, "Medium"))
        /\ CapsOverrideCase(<<"J", "a", "n", "e", " ", "D", "o", "e">>, <<"J", "O", "E", " ", "H", "I", "L", "L">>)
        /\ Unwrap(self[i]).metadata.byline = Some(<<"J", "a", "n", "e", " ", "D", "o", "e">>)

\* one of the three triggers of the override applies
OverrideTrigger(existing, dom, confidence) ==
    \/ looks_like_org_credit(existing) /\ ~looks_like_org_credit(dom)
    \/ looks_like_dateline(existing) /\ ~looks_like_dateline(dom)
    \/ confidence = "High" /\ looks_like_caps_author(dom) /\ ~looks_like_caps_author(existing)

\* the tokens left of the DOM text once the existing value and the
\* punctuation are removed, fillers (digits, by, updated, at, am, pm, month
\* names) left out
TokensBeyond(existing, dom) ==
    LET text == Normalised(dom)
        value == Normalised(existing)
        at == Find(text, value)
        rest == SubSeq(text, 1, at - 1) \o SubSeq(text, at + Len(value), Len(text))
        tokens == split_whitespace(ReplaceChars(rest, RemainderPunctuation, " "))
    IN  { n \in DOMAIN tokens : ~IsFillerToken(tokens[n]) }

\* C23: outside the triggers the existing byline is kept: the DOM text is
\* not preferred when it equals the existing value up to ASCII case, nor
\* when no trigger applies and it does not contain the existing value; when
\* it contains it, it is preferred only if a token that is no filler is
\* left beyond the existing value.
C23_ExistingKeptOutsideTriggers ==
    \A i \in Insts :
        (/\ BylineResolved(i)
         /\ IsSome(ExistingByline(i))
         /\ IsSome(extract_byline_from_document(DocOf(i)))) =>
            LET existing == Unwrap(ExistingByline(i))
                dom == Unwrap(extract_byline_from_document(DocOf(i)))
                preferred == should_prefer_dom_byline(existing, dom.text, dom.confidence)
                contained == Contains(Normalised(dom.text), Normalised(existing))
            IN  /\ eq_ignore_ascii_case(Trim(dom.text), Trim(existing)) => ~preferred
                /\ (~OverrideTrigger(existing, dom.text, dom.confidence) /\ ~contained)
                        => ~preferred
                /\ (~OverrideTrigger(existing, dom.text, dom.confidence) /\ contained
                        /\ preferred) => TokensBeyond(existing, dom.text) # {}

-----------------------------------------------------------------------------
(* Properties of the confidence of a DOM byline candidate.                  *)

\* the confidence a rung gives a candidate it takes from the element
Tier(rung_name, elem) ==
    CASE rung_name \in {"standfirst", "rel", "itemprop"} -> "High"
      [] rung_name = "pattern" ->
            IF CarriesKeyword(elem, {<<"b", "y", "l", "i", "n", "e">>}) THEN "High" ELSE "Medium"
      [] rung_name = "class_id" -> "Medium"
      [] OTHER -> "Low"

\* the candidate a rung makes from an element it accepts
CandidateFrom(elems, k, rung_name) ==
    CASE rung_name = "standfirst" ->
            Some(DomBylineCandidate(Unwrap(StandfirstLoop(elems, <<k>>)), "High"))
      [] rung_name \in {"rel", "itemprop"} -> AuthorVerdict(elems, k, rung_name).candidate
      [] OTHER -> LowerVerdict(elems, k, rung_name).candidate

\* C24: the confidence of a candidate follows from the rung that made it:
\* High for the standfirst, the author links and the itemprop elements; for
\* the byline selectors High when the class or the id of the element
\* contains 'byline' and Medium otherwise; Medium for the generic class/id
\* rung; Low for addresses and generic text blocks.
C24_ConfidenceFollowsRung ==
    \A i \in Insts :
        BylineResolved(i) =>
            LET elems == DocOf(i).body_elems
                returned == extract_byline_from_document(DocOf(i))
            IN  /\ \A rung_name \in AllRungs :
                    \A k \in AcceptedFrom(elems, rung_name) :
                        Unwrap(CandidateFrom(elems, k, rung_name)).confidence
                            = Tier(rung_name, elems[k])
                /\ IsSome(returned) =>
                        \E rung_name \in AllRungs :
                            \E k \in AcceptedFrom(elems, rung_name) :
                                returned = CandidateFrom(elems, k, rung_name)
                /\ IsSome(extract_standfirst_caps_byline(DocOf(i))) =>
                        Unwrap(returned).confidence = "High"

\* an author block whose id holds Byline gave a High candidate, and the
\* same block without the id a Medium one
C24_Witness ==
    \E i \in Insts :
        /\ BylineResolved(i)
        /\ Len(DocOf(i).body_elems) = 1
        /\ DocOf(i).body_elems[1].class = <<"a", "u", "t", "h", "o", "r">>
        /\ DocOf(i).body_elems[1].id = <<"t", "o", "p", "-", "B", "y", "l", "i", "n", "e">>
        /\ extract_byline_from_document(DocOf(i)) = Some(DomBylineCandidate(<<"J", "O", "E", " ", "H", "I", "L", "L">>, "High"))
        /\ extract_byline_from_document(
              [DocOf(i) EXCEPT !.body_elems = <<Elem("p", <<"a", "u", "t", "h", "o", "r">>, <<"J", "O", "E", " ", "H", "I", "L", "L">>, 0)>>])
                = Some(DomBylineCandidate(<<"J", "O", "E", " ", "H", "I", "L", "L">>, "Medium"))

-----------------------------------------------------------------------------
(* Properties of the organisation credits in the cascade.                   *)

\* the rung cleans the text of the element and the cleaning reports an
\* organisation credit
CreditReported(elems, k, rung_name) ==
    LET text == Trim(collect_byline_candidate_text(elems, k))
    IN  /\ clean_byline_text_with_reason(text).kind = "DroppedOrgCredit"
        /\ text # << >>
        /\ IF rung_name \in {"rel", "itemprop"}
           THEN /\ ~is_ignorable_byline_context(elems, k) /\ ~is_noise_byline_context(elems, k)
                /\ IsNone(parent_byline_text(elems, k))
           ELSE /\ ~RungSkips(elems, k, rung_name)
                /\ ByteLen(text) <= RungMaxLen(rung_name)
                /\ RungAccepts(elems, k, rung_name, text)

\* the visits of the whole cascade below the standfirst, in order: the
\* rung and the element of each
CascadeVisits(elems) ==
    LET Of(rung_name, nodes) == [j \in DOMAIN nodes |-> [rung |-> rung_name, k |-> nodes[j]]]
    IN  Of("rel", AuthorNodes(elems, "rel")) \o Of("itemprop", AuthorNodes(elems, "itemprop"))
        \o Of("pattern", RungNodes(elems, "pattern")) \o Of("class_id", RungNodes(elems, "class_id"))
        \o Of("address", RungNodes(elems, "address")) \o Of("generic", RungNodes(elems, "generic"))

\* the visit returns a candidate at once
ReturnsAt(elems, visit) ==
    IF visit.rung \in {"rel", "itemprop"}
    THEN AuthorVerdict(elems, visit.k, visit.rung).kind = "candidate"
    ELSE LowerVerdict(elems, visit.k, visit.rung).kind = "priority"

\* C30: an organisation credit reported in the author-link, itemprop,
\* byline-selector or generic-text rung, before any candidate was returned,
\* makes the cascade return nothing, fallback or not; reported in the
\* generic class/id rung or the address rung it only passes the element
\* over, and the cascade returns what it returns without that element.
C30_OrgCreditAbortsOrSkips ==
    \A i \in Insts :
        (BylineResolved(i) /\ IsNone(extract_standfirst_caps_byline(DocOf(i)))) =>
            LET elems == DocOf(i).body_elems
                visits == CascadeVisits(elems)
                returned == extract_byline_from_document(DocOf(i))
                aborting == { j \in DOMAIN visits :
                                /\ visits[j].rung \in {"rel", "itemprop", "pattern", "generic"}
                                /\ CreditReported(elems, visits[j].k, visits[j].rung)
                                /\ \A n \in 1..(j - 1) : ~ReturnsAt(elems, visits[n]) }
                passing == { j \in DOMAIN visits :
                                /\ visits[j].rung \in {"class_id", "address"}
                                /\ CreditReported(elems, visits[j].k, visits[j].rung) }
            IN  /\ aborting # {} => returned = None
                /\ (aborting = {} /\ passing # {}) =>
                        \/ IsSome(returned)
                        \/ \A j \in DOMAIN visits :
                                /\ ~ReturnsAt(elems, visits[j])
                                /\ visits[j].rung \notin {"rel", "itemprop"} =>
                                      LowerVerdict(elems, visits[j].k, visits[j].rung).kind
                                            # "fallback"

\* a credit among the byline selectors ended the cascade although a plain
\* name had been kept before it
C30_Witness ==
    \E i \in Insts :
        /\ BylineResolved(i)
        /\ Len(DocOf(i).body_elems) = 2
        /\ LowerVerdict(DocOf(i).body_elems, 1, "pattern").kind = "fallback"
        /\ CreditReported(DocOf(i).body_elems, 2, "pattern")
        /\ extract_byline_from_document(DocOf(i)) = None
        /\ Unwrap(self[i]).metadata.byline = FirstOf(meta_values[i], BylineKeys)

-----------------------------------------------------------------------------
(* C25, C26: the <title> heuristic.                                         *)

\* no structured data and no meta tag names a title
NoTaggedTitle(i) ==
    /\ IsNone(json_ld[i].title)
    /\ IsNone(FirstOf(meta_values[i], TitleKeys))

\* the trimmed text of the title element, << >> when there is none
TitleText(i) ==
    IF IsSome(DocOf(i).title) THEN Trim(Unwrap(DocOf(i).title)) ELSE << >>

HasSeparator(t) == \E k \in DOMAIN t : SepAt(t, k, SepChars)

\* the position of the first separator character of t
FirstSepChar(t) ==
    CHOOSE k \in DOMAIN t : t[k] \in SepChars /\ \A j \in 1..(k - 1) : t[j] \notin SepChars

\* the title the separator rule names for the title text t
SeparatorRule(t) ==
    LET Final(c) == NormalizeWs(Trim(c))
        Kept(c) ==
            IF word_count(c) <= 4
               /\ ~((\E k \in DOMAIN t : SepAt(t, k, HierChars))
                    /\ word_count(c) + 1 = word_count(ReplaceSeps(t, 1)))
            THEN t ELSE c
        Reduce(before) ==
            IF word_count(before) < 3
            THEN Kept(Final(SubSeq(t, FirstSepChar(t) + 1, Len(t))))
            ELSE Kept(Final(before))
        Matches(ms) == Reduce(SubSeq(t, 1, ms[Len(ms)] - 1))
    IN  Matches(SepMatches(t, 1))

TopHeadings(i) == SelectSeq(DocOf(i).headings, LAMBDA h : h.tag = "h1")

\* the separator rule reduced the title text to something it then gave up
DropsTooMuch(t) == HasSeparator(t) /\ SeparatorRule(t) = t

Implausible(t) == Len(t) < 15 \/ Len(t) > 150 \/ DropsTooMuch(t)

\* C26: when no tag names a title and the title element's text is implausible
\* (shorter than 15 or longer than 150 characters, or reduced too far), the
\* resolved title is the text of the document's only h1; with no h1 or
\* several the title text is kept.
C26_SingleHeadingReplacesImplausibleTitle ==
    \A i \in Insts :
        (BylineResolved(i) /\ NoTaggedTitle(i) /\ IsSome(DocOf(i).title)
            /\ Implausible(TitleText(i)))
            => Unwrap(self[i]).metadata.title =
                    Some(IF Len(TopHeadings(i)) = 1
                         THEN Trim(TopHeadings(i)[1].text)
                         ELSE TitleText(i))

-----------------------------------------------------------------------------
(* C27: the excerpt of the record.                                          *)

ArticleOf(i) == Unwrap(result[i].article)

\* a byline-like paragraph: its text reads as a byline or its class or id
\* names a byline or an author
BylineLike(p) ==
    \/ looks_like_byline(Trim(p.text))
    \/ \E w \in {<<"b", "y", "l", "i", "n", "e">>, <<"a", "u", "t", "h", "o", "r">>} :
            Contains(to_lowercase(p.class), w) \/ Contains(to_lowercase(p.id), w)

\* hatnote-like class or id, role=note, a 'see also'-style prefix, or more
\* than 0.8 of the text inside links
ExcerptNoise(p) ==
    \/ \E kw \in CLASS_KEYWORDS :
            Contains(to_lowercase(p.class), kw) \/ Contains(to_lowercase(p.id), kw)
    \/ p.role \in {Some(<<"n", "o", "t", "e">>), Some(<<"N", "o", "t", "e">>)}
    \/ \E prefix \in TEXT_PREFIXES : StartsWith(to_lowercase(Trim(p.text)), prefix)
    \/ p.link_chars * 10 > Len(p.text) * 8

\* the paragraphs of the content that may serve as excerpt, the size of a
\* text being measured by Size
Eligible(content, Size(_)) ==
    { k \in DOMAIN content :
        /\ content[k].tag = "p"
        /\ Size(Trim(content[k].text)) >= MinParagraphLen
        /\ ~looks_like_bracket_menu(Trim(content[k].text))
        /\ ~ExcerptNoise(content[k])
        /\ ~BylineLike(content[k]) }

\* t occurs in s as a contiguous piece
OccursIn(t, s) ==
    \E k \in 0..(Len(s) - Len(t)) : SubSeq(s, k + 1, k + Len(t)) = t

\* the order of the fallbacks, for one way of measuring a paragraph
ExcerptOrder(i, Size(_)) ==
    LET a == ArticleOf(i)
        meta == Unwrap(self[i]).metadata.excerpt
        content == Unwrap(a.content)
        Least(S) == CHOOSE k \in S : \A j \in S : k <= j
    IN  IF IsSome(meta) THEN a.excerpt = meta
        ELSE IF Eligible(content, Size) # {}
             THEN a.excerpt = Some(Trim(content[Least(Eligible(content, Size))].text))
             ELSE \/ IsNone(a.excerpt)
                  \/ /\ IsSome(a.excerpt)
                     /\ CharCount(Unwrap(a.excerpt)) <= MaxExcerptLen
                     /\ OccursIn(Unwrap(a.excerpt), Unwrap(a.text_content))

\* C27 as stated: the excerpt of a returned record is the metadata excerpt;
\* else the trimmed text of the first p of the content with at least 25
\* characters that is no bracket menu, no excerpt noise and not byline-like;
\* else a piece of the text content of at most 300 characters, or absent.
C27_ExcerptOrderByCharacters ==
    \A i \in Insts : Succeeded(i) => ExcerptOrder(i, CharCount)

\* C27 with the paragraph measured as the code measures it: at least 25
\* bytes of UTF-8 in the trimmed text of the p.
C27_ExcerptOrderByBytes ==
    \A i \in Insts : Succeeded(i) => ExcerptOrder(i, ByteLen)

\* every fallback is reached: the metadata excerpt, a paragraph behind a
\* skipped one, a cut text, and no excerpt at all
C27_Witness ==
    \E i \in Insts :
        /\ Succeeded(i)
        /\ IsNone(Unwrap(self[i]).metadata.excerpt)
        /\ LET content == Unwrap(ArticleOf(i).content)
           IN  /\ Eligible(content, ByteLen) # {}
               /\ 1 \notin Eligible(content, ByteLen)
               /\ ArticleOf(i).excerpt = Some(Trim(content[2].text))

\* a paragraph of 24 characters and 25 bytes is the excerpt
C27_WitnessBytes ==
    \E i \in Insts :
        /\ Succeeded(i)
        /\ IsNone(Unwrap(self[i]).metadata.excerpt)
        /\ LET content == Unwrap(ArticleOf(i).content)
           IN  /\ Eligible(content, CharCount) = {}
               /\ Eligible(content, ByteLen) = {1}
               /\ ArticleOf(i).excerpt = Some(Trim(content[1].text))

\* the text content is cut to a shorter excerpt
C27_WitnessCut ==
    \E i \in Insts :
        /\ Succeeded(i)
        /\ IsSome(ArticleOf(i).excerpt)
        /\ CharCount(Unwrap(ArticleOf(i).text_content)) > MaxExcerptLen
        /\ CharCount(Unwrap(ArticleOf(i).excerpt)) < MaxExcerptLen

-----------------------------------------------------------------------------
(* C28: the order of the stages inside one call of parse.                   *)

\* the positions of parse, in the order of its statements
StageOrder ==
    <<"created", "json_ld", "metadata", "prepped", "ladder", "grabbed", "light", "post", "deep",
      "done">>

StageRank(p) == CHOOSE k \in DOMAIN StageOrder : StageOrder[k] = p

InParse(p) == \E k \in DOMAIN StageOrder : StageOrder[k] = p

\* the stage that was run to arrive at p
StageBefore(p) ==
    CASE p = "json_ld" -> {"created"}
      [] p = "metadata" -> {"json_ld"}
      [] p = "prepped" -> {"metadata"}
      [] p = "ladder" -> {"prepped"}
      [] p = "grabbed" -> {"prepped", "ladder"}
      [] p = "light" -> {"grabbed"}
      [] p = "post" -> {"light"}
      [] p = "deep" -> {"post"}
      [] p = "done" -> {"deep", "grabbed"}
      [] OTHER -> {}

\* one step of a call moves it forward by one stage and leaves the results
\* of the stages already run as they are
StepInOrder(i) ==
    /\ (InParse(pc[i]) /\ pc'[i] # pc[i]) =>
            /\ InParse(pc'[i])
            /\ StageRank(pc[i]) < StageRank(pc'[i])
            /\ pc[i] \in StageBefore(pc'[i])
    /\ (InParse(pc[i]) /\ StageRank(pc[i]) >= StageRank("metadata")) =>
            Unwrap(self'[i]).metadata = Unwrap(self[i]).metadata
    /\ \A f \in DOMAIN NoLocals : IsSome(stage[i][f]) => stage'[i][f] = stage[i][f]
    /\ pc'[i] = pc[i] => pc[i] = "ladder" \/ (stage'[i] = stage[i] /\ self'[i] = self[i])

\* what each stage has produced by the time a later one runs
StagesFeedEachOther(i) ==
    LET s == stage[i]
        base_url == Unwrap(self[i]).base_url
    IN  /\ IsSome(s.preprocessed_doc) => pc[i] # "metadata"
        /\ IsSome(s.content_html) =>
                /\ IsSome(s.preprocessed_doc)
                /\ s.content_html = grab[i].v
                /\ \E k \in DOMAIN Ladder :
                        s.content_html = Some(Unwrap(s.preprocessed_doc).rungs[k])
                /\ IsSome(s.cleaned_wrapper_html)
                /\ LET light == clean_article_content_light(Unwrap(s.content_html), base_url)
                   IN  s.cleaned_wrapper_html =
                            Some(IF light.ok THEN light.v ELSE Unwrap(s.content_html))
        /\ IsSome(s.prepped_html) =>
                /\ IsSome(s.cleaned_wrapper_html)
                /\ s.prepped_html = Some(prep_article(Unwrap(s.cleaned_wrapper_html)))
        /\ IsSome(s.cleaned_html) => IsSome(s.prepped_html)

\* the record's raw content, text content and length
RecordFromStages(i) ==
    LET a == Unwrap(result[i].article)
    IN  /\ a.raw_content = stage[i].content_html
        /\ IsSome(a.content)
        /\ a.text_content = Some(ConcatTexts(Unwrap(a.content)))
        /\ a.length = ByteLen(ConcatTexts(Unwrap(a.content)))

\* the output of the deep pass, None when it fails
DeepOutput(i) ==
    LET deep == clean_article_content(Unwrap(stage[i].prepped_html), Unwrap(self[i]).base_url)
    IN  IF deep.ok THEN Some(deep.v) ELSE None

\* C28 as stated: within one call of parse the stages run in the order
\* metadata resolution, preprocessing, candidate selection, light pass,
\* post-processing prep, deep pass, record construction, none of them twice;
\* raw_content is what the selector returned, content is the output of the
\* deep pass, text_content and length are computed from content.
C28_StagesInOrderContentFromDeepPass ==
    /\ [][\A i \in Insts : StepInOrder(i)]_vars
    /\ [](\A i \in Insts : IsSome(self[i]) => StagesFeedEachOther(i))
    /\ [](\A i \in Insts : Succeeded(i) =>
            /\ RecordFromStages(i)
            /\ Unwrap(result[i].article).content = DeepOutput(i))

\* C28 with the deep pass allowed to fail: content is then the output of the
\* post-processing prep.
C28_StagesInOrderContentFromDeepPassOrPrep ==
    /\ [][\A i \in Insts : StepInOrder(i)]_vars
    /\ [](\A i \in Insts : IsSome(self[i]) => StagesFeedEachOther(i))
    /\ [](\A i \in Insts : Succeeded(i) =>
            /\ RecordFromStages(i)
            /\ Unwrap(result[i].article).content =
                    (IF IsSome(DeepOutput(i)) THEN DeepOutput(i) ELSE stage[i].prepped_html))

\* a record is returned whose raw content, prepped fragment and content are
\* three different fragments
C28_Witness ==
    \E i \in Insts :
        /\ Succeeded(i)
        /\ LET a == Unwrap(result[i].article)
           IN  /\ a.raw_content # stage[i].prepped_html
               /\ a.raw_content # a.content
               /\ stage[i].prepped_html # a.content
               /\ a.content = DeepOutput(i)

\* a record is returned after the deep pass failed
C28_WitnessDeepPassFailed ==
    \E i \in Insts :
        /\ Succeeded(i)
        /\ IsNone(DeepOutput(i))
        /\ Unwrap(result[i].article).content = stage[i].prepped_html

-----------------------------------------------------------------------------
(* C29: the title is always present.                                        *)

\* get_article_metadata has returned for the call
MetadataReturned(i) == InParse(pc[i]) /\ StageRank(pc[i]) >= StageRank("metadata")

\* C29: the metadata get_article_metadata returns has a title, the empty
\* string when neither structured data nor a meta tag names one and the
\* title element is missing or blank; and every record parse returns
\* carries that title.
C29_TitleNeverAbsent ==
    \A i \in Insts :
        /\ MetadataReturned(i) =>
                /\ IsSome(Unwrap(self[i]).metadata.title)
                /\ (NoTaggedTitle(i) /\ TitleText(i) = << >>) =>
                        Unwrap(self[i]).metadata.title = Some(<< >>)
        /\ Succeeded(i) =>
                /\ IsSome(ArticleOf(i).title)
                /\ ArticleOf(i).title = Unwrap(self[i]).metadata.title

\* a record with the empty title and no byline, excerpt, site name,
\* published time or language
C29_Witness ==
    \E i \in Insts :
        /\ Succeeded(i)
        /\ NoTaggedTitle(i) /\ IsNone(DocOf(i).title)
        /\ ArticleOf(i).title = Some(<< >>)
        /\ IsNone(ArticleOf(i).byline) /\ IsNone(ArticleOf(i).excerpt)
        /\ IsNone(ArticleOf(i).site_name) /\ IsNone(ArticleOf(i).published_time)
        /\ IsNone(ArticleOf(i).lang)

====
